---- MODULE Spec2Model ----
(***************************************************************************)
(* Model of the output-reconciliation core of the CumulusCI editor         *)
(* extension (src/src/extension.ts): scratch-org day-count parsing and     *)
(* display, task/flow reconciliation against the declarative config, and   *)
(* org reconciliation against the scratch-org definitions.                 *)
(*                                                                         *)
(* JavaScript strings are sequences of one-character strings, so that      *)
(* trim(), toLowerCase(), regular-expression matches and number formatting *)
(* are computed, not assumed.  The JavaScript value `undefined` (and any    *)
(* other non-string value in a string slot) is the one-element sequence    *)
(* `undefined`, which is not a sequence of characters.                      *)
(***************************************************************************)
EXTENDS Integers, Sequences, FiniteSets, TLC

VARIABLES
    dayInput,      \* the `days` value handed to the day-count functions
    dayParsed,     \* result of parseScratchDayCount(dayInput)
    dayDisplay,    \* result of CciService.formatScratchDayDisplay(dayInput)
    dayPc,         \* which of the two calls have returned
    section,       \* 'tasks' | 'flows': the listing being reconciled
    records,       \* the caller's live-record array (result of fetchRecords)
    projectSection,\* the section's entries in the project cumulusci.yml
    globalSection, \* the section's entries in ~/.cumulusci/cumulusci.yml
    configDefinitions, \* the lookup Map of the latest includeConfigDefinitions call
    taskRuns,      \* the arrays returned by the includeConfigDefinitions calls so far
    orgShape,      \* shape of the `cci org list --json` output: "array" | "map"
    orgJson,       \* its entries: <<key, value>> (key is "" in an array)
    orgsDirectory, \* entries of the folder's orgs/ directory
    scratchSection,\* entries of orgs.scratch in cumulusci.yml
    definitions,   \* the definitions Map of the latest getOrgEntries call
    orgRuns,       \* the entry lists returned by the getOrgEntries calls so far
    tableKind, \* "list" | "info": which service table is parsed
    tableLines, \* the lines of the `cci service list|info` output
    tableResult, \* rows of parseServiceListOutput / entries of parseServiceInfoOutput
    tableDone, \* whether the parser has returned
    jsonStdout, \* stdout of a `cci ... --json` call
    jsonValue, \* the JSON value the CLI printed into it
    jsonKey, \* arrayKey: the preferred key of the listing
    jsonRecords, \* the records returned by parseJsonRecords
    jsonRaised, \* whether parseJsonRecords threw
    jsonDone, \* whether parseJsonRecords has returned
    presentKind, \* itemKind of the presenter call: 'task' | 'flow'
    presentRecords, \* the records handed to buildGroupedItems
    treeItems, \* the items buildGroupedItems returned
    treeDone, \* whether buildGroupedItems has returned
    fetchArgs, \* baseArgs of the fetchRecords call
    fetchKey, \* its arrayKey
    cliLog, \* the argument lists of the child processes spawned so far
    cliExits, \* the outcomes of those that have exited
    fetchPc, \* where fetchRecords is: start, awaitJson, awaitText, returned, thrown
    fetchOut, \* what fetchRecords returned or threw
    viewKind, \* kind of the tree provider: orgs, tasks, flows, project, services
    projectFolders, \* the project folders, each with what loadItemsForFolder does for it
    rootItems, \* the items getChildren(undefined) returned
    rootDone, \* whether getChildren has returned
    svcPlain, \* outcome of `cci service list --plain`
    svcMeta, \* outcome of `cci service list --json`
    svcOut, \* what getServiceTypeGroups returned or threw, with the calls it made
    svcDone, \* whether getServiceTypeGroups has settled
    infoExit, \* outcome of `cci org info <alias> --json`
    infoOut, \* what getOrgInfo returned or threw
    infoDone, \* whether getOrgInfo has settled
    statusText, \* defaultOrgStatus.text
    expiryNotified, \* workspaceState['cumulusci.expiryNotified']: alias -> last notified day count
    storeWrites, \* how many times that workspaceState key has been written
    defaultOrg, \* the entry findDefaultOrg finds when it settles now
    updates, \* the calls of updateDefaultOrgStatus, in the order they started
    shown, \* the expiry notifications put up so far
    connectItem, \* the tree item the command was run on: its type and attributes
    serviceGroups, \* what getServiceTypeGroups gives during the command
    connectPc, \* the await the command handler is at
    connectType, \* handler local `type`
    attributes, \* handler local `attributes`
    trimmedName, \* handler local `trimmedName`
    commandParts, \* handler local `commandParts`
    attributeIndex, \* position of the attribute whose input loop runs
    answers, \* what the user answered to each prompt, in order
    terminalText \* the texts passed to terminal.sendText

dayVars == <<dayInput, dayParsed, dayDisplay, dayPc>>
taskVars == <<section, records, projectSection, globalSection, configDefinitions, taskRuns>>
orgVars == <<orgShape, orgJson, orgsDirectory, scratchSection, definitions, orgRuns>>
tableVars == <<tableKind, tableLines, tableResult, tableDone>>
jsonVars == <<jsonStdout, jsonValue, jsonKey, jsonRecords, jsonRaised, jsonDone>>
presentVars == <<presentKind, presentRecords, treeItems, treeDone>>
fetchVars == <<fetchArgs, fetchKey, cliLog, cliExits, fetchPc, fetchOut>>
treeVars == <<viewKind, projectFolders, rootItems, rootDone>>
svcVars == <<svcPlain, svcMeta, svcOut, svcDone>>
infoVars == <<infoExit, infoOut, infoDone>>
statusVars == <<statusText, expiryNotified, storeWrites, defaultOrg, updates, shown>>
connectVars == <<connectItem, serviceGroups, connectPc, connectType, attributes, trimmedName, commandParts, attributeIndex, answers, terminalText>>
vars == <<dayInput, dayParsed, dayDisplay, dayPc,
          section, records, projectSection, globalSection, configDefinitions, taskRuns,
          orgShape, orgJson, orgsDirectory, scratchSection, definitions, orgRuns,
          tableKind, tableLines, tableResult, tableDone,
          jsonStdout, jsonValue, jsonKey, jsonRecords, jsonRaised, jsonDone,
          presentKind, presentRecords, treeItems, treeDone,
          fetchArgs, fetchKey, cliLog, cliExits, fetchPc, fetchOut,
          viewKind, projectFolders, rootItems, rootDone,
          svcPlain, svcMeta, svcOut, svcDone,
          infoExit, infoOut, infoDone,
          statusText, expiryNotified, storeWrites, defaultOrg, updates, shown,
          connectItem, serviceGroups, connectPc, connectType, attributes, trimmedName, commandParts, attributeIndex, answers, terminalText>>

(***************************************************************************)
(* Bounds                                                                  *)
(***************************************************************************)
MaxDayLen == 4
MaxLive == 2       \* live records in one listing
MaxProject == 2    \* entries of the section in the project config
MaxGlobal == 1     \* entries of the section in the user-level config
MaxRuns == 2       \* reconciliation passes over the same inputs
MaxOrgLive == 2    \* live org records in one listing
MaxOrgFiles == 1   \* files in the orgs/ directory
MaxScratch == 1    \* entries of orgs.scratch
MaxTableLines == 4 \* lines of a service table output
MaxPresent == 3
MaxAttributes == 2
MaxAnswers == 7
MaxUpdates == 2
MaxFolders == 2
MaxJsonEntries == 2 \* entries of a JSON object, items of a JSON array

(***************************************************************************)
(* JavaScript values and string primitives                                 *)
(***************************************************************************)
undefined == <<"<undefined>">>
jsTrue == <<"<true>">>
jsFalse == <<"<false>">>
undefNum == 0 - 1

IsString(v) == v \notin {undefined, jsTrue, jsFalse}

Digits == {"0", "1", "2", "3", "4", "5", "6", "7", "8", "9"}

DigitValue(c) ==
    CASE c = "0" -> 0 [] c = "1" -> 1 [] c = "2" -> 2 [] c = "3" -> 3
      [] c = "4" -> 4 [] c = "5" -> 5 [] c = "6" -> 6 [] c = "7" -> 7
      [] c = "8" -> 8 [] c = "9" -> 9

DigitChar(d) ==
    CASE d = 0 -> "0" [] d = 1 -> "1" [] d = 2 -> "2" [] d = 3 -> "3"
      [] d = 4 -> "4" [] d = 5 -> "5" [] d = 6 -> "6" [] d = 7 -> "7"
      [] d = 8 -> "8" [] d = 9 -> "9"

WhiteSpace == {" ", "\t", "\n", "\r"}

RECURSIVE TrimStart(_)
TrimStart(s) ==
    IF s = <<>> THEN <<>>
    ELSE IF Head(s) \in WhiteSpace THEN TrimStart(Tail(s)) ELSE s

RECURSIVE TrimEnd(_)
TrimEnd(s) ==
    IF s = <<>> THEN <<>>
    ELSE IF s[Len(s)] \in WhiteSpace THEN TrimEnd(SubSeq(s, 1, Len(s) - 1)) ELSE s

\* String.prototype.trim
Trim(s) == TrimEnd(TrimStart(s))

LowerChar(c) ==
    CASE c = "A" -> "a" [] c = "B" -> "b" [] c = "C" -> "c" [] c = "D" -> "d"
      [] c = "E" -> "e" [] c = "F" -> "f" [] c = "G" -> "g" [] c = "H" -> "h"
      [] c = "I" -> "i" [] c = "J" -> "j" [] c = "K" -> "k" [] c = "L" -> "l"
      [] c = "M" -> "m" [] c = "N" -> "n" [] c = "O" -> "o" [] c = "P" -> "p"
      [] c = "Q" -> "q" [] c = "R" -> "r" [] c = "S" -> "s" [] c = "T" -> "t"
      [] c = "U" -> "u" [] c = "V" -> "v" [] c = "W" -> "w" [] c = "X" -> "x"
      [] c = "Y" -> "y" [] c = "Z" -> "z" [] OTHER -> c

\* String.prototype.toLowerCase
ToLowerCase(s) == [i \in 1..Len(s) |-> LowerChar(s[i])]

\* /^\d+$/
IsDigits(s) == s # <<>> /\ \A i \in 1..Len(s) : s[i] \in Digits

\* Number.parseInt(s, 10) on a string of digits
RECURSIVE ParseInt(_)
ParseInt(s) ==
    IF s = <<>> THEN 0
    ELSE 10 * ParseInt(SubSeq(s, 1, Len(s) - 1)) + DigitValue(s[Len(s)])

\* String(n) for a non-negative integer
RECURSIVE NumberToString(_)
NumberToString(n) ==
    IF n < 10 THEN <<DigitChar(n)>>
    ELSE NumberToString(n \div 10) \o <<DigitChar(n % 10)>>

Max(a, b) == IF a >= b THEN a ELSE b

(***************************************************************************)
(* Day counts: pluralizeDay, parseScratchDayCount, formatScratchDaySummary *)
(***************************************************************************)
pluralizeDay(count) ==
    IF count = 1 THEN <<"d", "a", "y">> ELSE <<"d", "a", "y", "s">>

LeftSuffix == <<" ", "l", "e", "f", "t">>
ExpiredText == <<"E", "x", "p", "i", "r", "e", "d">>

NoBreakdown == [remaining |-> undefNum, total |-> undefNum, used |-> undefNum]

SlashPositions(s) == {i \in 1..Len(s) : s[i] = "/"}

\* trimmed.match(/^(\d+)\s*\/\s*(\d+)$/): <<used, total>> digits, or <<>>
FractionMatch(s) ==
    IF Cardinality(SlashPositions(s)) # 1 THEN <<>>
    ELSE LET k == CHOOSE i \in SlashPositions(s) : TRUE
             left == TrimEnd(SubSeq(s, 1, k - 1))
             right == TrimStart(SubSeq(s, k + 1, Len(s)))
         IN IF IsDigits(left) /\ IsDigits(right) THEN <<left, right>> ELSE <<>>

DotPositions(s) == {i \in 1..Len(s) : s[i] = "."}

\* An unsigned StrDecimalLiteral without exponent: digits, digits., digits.digits, .digits
IsUnsignedDecimal(s) ==
    \/ IsDigits(s)
    \/ /\ Cardinality(DotPositions(s)) = 1
       /\ LET k == CHOOSE i \in DotPositions(s) : TRUE
              ip == SubSeq(s, 1, k - 1)
              fp == SubSeq(s, k + 1, Len(s))
          IN /\ ip = <<>> \/ IsDigits(ip)
             /\ fp = <<>> \/ IsDigits(fp)
             /\ ip # <<>> \/ fp # <<>>

IntegerPart(s) ==
    IF IsDigits(s) THEN ParseInt(s)
    ELSE LET k == CHOOSE i \in DotPositions(s) : TRUE
         IN ParseInt(SubSeq(s, 1, k - 1))

HasFraction(s) ==
    /\ ~IsDigits(s)
    /\ LET k == CHOOSE i \in DotPositions(s) : TRUE
       IN \E i \in (k + 1)..Len(s) : s[i] # "0"

\* Number.isFinite(Number(trimmed)) for a trimmed, non-empty string
NumberIsFinite(s) ==
    \/ IsUnsignedDecimal(s)
    \/ Len(s) > 1 /\ s[1] = "-" /\ IsUnsignedDecimal(Tail(s))

\* Math.floor(Number(trimmed)) when NumberIsFinite(trimmed)
NumberFloor(s) ==
    IF s[1] = "-"
    THEN 0 - IntegerPart(Tail(s)) - (IF HasFraction(Tail(s)) THEN 1 ELSE 0)
    ELSE IntegerPart(s)

\* variant: the fraction's first number taken as the remaining days
parseScratchDayCount_firstIsRemaining(value) ==
    IF ~IsString(value) \/ value = <<>> THEN NoBreakdown
    ELSE LET trimmed == Trim(value)
             fractionMatch == FractionMatch(trimmed)
         IN IF trimmed = <<>> THEN NoBreakdown
            ELSE IF fractionMatch # <<>> /\ ParseInt(fractionMatch[2]) > 0
            THEN LET used == ParseInt(fractionMatch[1])
                     total == ParseInt(fractionMatch[2])
                 IN [remaining |-> used, total |-> total, used |-> used]
            ELSE IF NumberIsFinite(trimmed)
            THEN LET total == Max(0, NumberFloor(trimmed))
                 IN [remaining |-> total, total |-> total, used |-> undefNum]
            ELSE NoBreakdown

parseScratchDayCount(value) ==
    IF ~IsString(value) \/ value = <<>> THEN NoBreakdown
    ELSE LET trimmed == Trim(value)
             fractionMatch == FractionMatch(trimmed)
         IN IF trimmed = <<>> THEN NoBreakdown
            ELSE IF fractionMatch # <<>> /\ ParseInt(fractionMatch[2]) > 0
            THEN LET used == ParseInt(fractionMatch[1])
                     total == ParseInt(fractionMatch[2])
                 IN [remaining |-> Max(total - used, 0), total |-> total, used |-> used]
            ELSE IF NumberIsFinite(trimmed)
            THEN LET total == Max(0, NumberFloor(trimmed))
                 IN [remaining |-> total, total |-> total, used |-> undefNum]
            ELSE NoBreakdown

\* variant: the `total === 0` test dropped
formatScratchDaySummary_noExpired(remaining, total) ==
    IF total = undefNum /\ remaining = undefNum THEN undefined
    ELSE IF total = undefNum
    THEN NumberToString(remaining) \o <<" ">> \o pluralizeDay(remaining) \o LeftSuffix
    ELSE IF remaining = undefNum
    THEN NumberToString(total) \o <<" ">> \o pluralizeDay(total) \o LeftSuffix
    ELSE IF remaining = total
    THEN NumberToString(remaining) \o <<" ">> \o pluralizeDay(remaining) \o LeftSuffix
    ELSE NumberToString(remaining) \o <<"/">> \o NumberToString(total)
            \o <<" ">> \o pluralizeDay(total) \o LeftSuffix

formatScratchDaySummary(remaining, total) ==
    IF total = undefNum /\ remaining = undefNum THEN undefined
    ELSE IF total = undefNum
    THEN NumberToString(remaining) \o <<" ">> \o pluralizeDay(remaining) \o LeftSuffix
    ELSE IF total = 0 THEN ExpiredText
    ELSE IF remaining = undefNum
    THEN NumberToString(total) \o <<" ">> \o pluralizeDay(total) \o LeftSuffix
    ELSE IF remaining = total
    THEN NumberToString(remaining) \o <<" ">> \o pluralizeDay(remaining) \o LeftSuffix
    ELSE NumberToString(remaining) \o <<"/">> \o NumberToString(total)
            \o <<" ">> \o pluralizeDay(total) \o LeftSuffix

formatScratchDayDisplay(value) ==
    IF ~IsString(value) \/ value = <<>> THEN undefined
    ELSE LET trimmed == Trim(value)
         IN IF trimmed = <<>> THEN undefined
            ELSE LET parsed == parseScratchDayCount(trimmed)
                     summary == formatScratchDaySummary(parsed.remaining, parsed.total)
                 IN IF summary # undefined THEN summary ELSE trimmed

(***************************************************************************)
(* Records (CciRecord).  A live value is an object, a string (a line of    *)
(* the text fallback) or something else (null, a number); `kind` says      *)
(* which.  Every object carries the same field names; an absent field      *)
(* holds `undefined`.                                                      *)
(***************************************************************************)
Truthy(v) == IsString(v) /\ v # <<>>

EmptyRecord ==
    [kind |-> "object", text |-> undefined, name |-> undefined, task_name |-> undefined,
     flow |-> undefined, description |-> undefined, group |-> undefined,
     configSource |-> undefined, configDefinition |-> undefined]

undefinedRecord == [EmptyRecord EXCEPT !.kind = "undefined"]
StringValue(text) == [EmptyRecord EXCEPT !.kind = "string", !.text = text]
OtherValue == [EmptyRecord EXCEPT !.kind = "other"]

taskLabelKeys == <<"name", "task_name">>
flowLabelKeys == <<"name", "flow">>

Ungrouped == <<"U", "n", "g", "r", "o", "u", "p", "e", "d">>
ProjectConfigGroup == <<"Project Config">>
WorkspaceConfigGroup == <<"Workspace Config">>

toRecord(value) == IF value.kind = "object" THEN value ELSE undefinedRecord

RECURSIVE pickFirstString(_, _)
pickFirstString(record, keys) ==
    IF record.kind = "undefined" \/ keys = <<>> THEN undefined
    ELSE LET value == record[Head(keys)]
         IN IF IsString(value) /\ Trim(value) # <<>> THEN Trim(value)
            ELSE pickFirstString(record, Tail(keys))

(***************************************************************************)
(* A JavaScript Map: a sequence of <<key, value>> in insertion order.      *)
(***************************************************************************)
MapHas(map, key) == \E i \in 1..Len(map) : map[i][1] = key
MapGet(map, key) == map[CHOOSE i \in 1..Len(map) : map[i][1] = key][2]
MapSet(map, key, value) ==
    IF MapHas(map, key)
    THEN [i \in 1..Len(map) |-> IF map[i][1] = key THEN <<key, value>> ELSE map[i]]
    ELSE Append(map, <<key, value>>)
MapDelete(map, key) == SelectSeq(map, LAMBDA e : e[1] # key)
MapValues(map) == [i \in 1..Len(map) |-> map[i][2]]

(***************************************************************************)
(* Declarative config loader (tasks and flows).  A section is the sequence *)
(* of its YAML entries [name, shape, description, group]: shape "string"   *)
(* is a bare string value (held in description), "mapping" an object with  *)
(* optional string description and group, "other" anything else (null).    *)
(***************************************************************************)
convertEntry(entry, scope) ==
    LET base == [EmptyRecord EXCEPT !.name = entry.name, !.configSource = <<scope>>]
        filled ==
            IF entry.shape = "string"
            THEN [base EXCEPT !.description = entry.description]
            ELSE IF entry.shape = "mapping"
            THEN [base EXCEPT !.description = entry.description,
                              !.group = entry.group,
                              !.configDefinition = <<"obj", entry.description, entry.group>>]
            ELSE base
    IN IF filled.group = undefined
       THEN [filled EXCEPT !.group = IF scope = "global" THEN WorkspaceConfigGroup
                                     ELSE ProjectConfigGroup]
       ELSE filled

convertConfigSectionToRecords(sectionValue, scope) ==
    [i \in 1..Len(sectionValue) |-> convertEntry(sectionValue[i], scope)]

RECURSIVE BuildDefinitionsMap(_, _)
BuildDefinitionsMap(combined, map) ==
    IF combined = <<>> THEN map
    ELSE LET record == Head(combined)
             name == IF IsString(record.name) THEN Trim(record.name) ELSE undefined
         IN IF ~Truthy(name) THEN BuildDefinitionsMap(Tail(combined), map)
            ELSE BuildDefinitionsMap(Tail(combined), MapSet(map, ToLowerCase(name), record))

\* variant: the lookup of the previous call is reused instead of a fresh one
loadConfigDefinitionsMap_reused(project, global) ==
    IF taskRuns # <<>> THEN configDefinitions
    ELSE BuildDefinitionsMap(convertConfigSectionToRecords(project, "project")
                               \o convertConfigSectionToRecords(global, "global"), <<>>)

loadConfigDefinitionsMap(project, global) ==
    BuildDefinitionsMap(convertConfigSectionToRecords(project, "project")
                          \o convertConfigSectionToRecords(global, "global"), <<>>)

(***************************************************************************)
(* Entity reconciler (tasks and flows)                                     *)
(***************************************************************************)
\* `fresh` tells whether the returned object is a new one ({ ...existing })
\* or the caller's own.
normalizeRecord(record, labelKeys) ==
    IF toRecord(record) # undefinedRecord
    THEN [value |-> toRecord(record), fresh |-> TRUE]
    ELSE IF record.kind = "string"
    THEN IF Trim(record.text) = <<>>
         THEN [value |-> undefinedRecord, fresh |-> TRUE]
         ELSE [value |-> [EmptyRecord EXCEPT !.name = Trim(record.text)], fresh |-> TRUE]
    ELSE [value |-> undefinedRecord, fresh |-> TRUE]

\* variant: the stub's description always replaces the live one
mergeConfigDefinition_configWins(target, config) ==
    [target EXCEPT
        !.configSource = IF config.configSource # undefined THEN config.configSource ELSE @,
        !.configDefinition = IF config.configDefinition # undefined
                             THEN config.configDefinition ELSE @,
        !.group = IF Truthy(config.group) /\ (~Truthy(@) \/ @ = Ungrouped)
                  THEN config.group ELSE @,
        !.description = IF Truthy(config.description) THEN config.description ELSE @]

mergeConfigDefinition(target, config) ==
    [target EXCEPT
        !.configSource = IF config.configSource # undefined THEN config.configSource ELSE @,
        !.configDefinition = IF config.configDefinition # undefined
                             THEN config.configDefinition ELSE @,
        !.group = IF Truthy(config.group) /\ (~Truthy(@) \/ @ = Ungrouped)
                  THEN config.group ELSE @,
        !.description = IF Truthy(config.description) /\ ~Truthy(@)
                        THEN config.description ELSE @]

LabelKeys(sec) == IF sec = "tasks" THEN taskLabelKeys ELSE flowLabelKeys

\* the `for (const record of records)` loop: st = [enriched, map, caller]
RECURSIVE IncludeLoop(_, _, _)
IncludeLoop(rest, labelKeys, st) ==
    IF rest = <<>> THEN st
    ELSE LET record == Head(rest)
             norm == normalizeRecord(record, labelKeys)
             normalized == norm.value
             name == pickFirstString(normalized, labelKeys)
             key == IF name # undefined THEN ToLowerCase(name) ELSE undefined
             hit == name # undefined /\ MapHas(st.map, key) /\ normalized # undefinedRecord
             merged == IF hit THEN mergeConfigDefinition(normalized, MapGet(st.map, key))
                       ELSE normalized
         IN IncludeLoop(Tail(rest), labelKeys,
                [enriched |-> IF normalized # undefinedRecord
                              THEN Append(st.enriched, merged) ELSE st.enriched,
                 map |-> IF hit THEN MapDelete(st.map, key) ELSE st.map,
                 caller |-> Append(st.caller, IF norm.fresh THEN record ELSE merged)])

\* variant: the unmatched stubs are not appended
includeConfigDefinitions_liveOnly(recs, project, global, sec) ==
    LET st == IncludeLoop(recs, LabelKeys(sec),
                          [enriched |-> <<>>,
                           map |-> loadConfigDefinitionsMap(project, global),
                           caller |-> <<>>])
    IN [enriched |-> st.enriched, map |-> st.map, caller |-> st.caller]

includeConfigDefinitions(recs, project, global, sec) ==
    LET st == IncludeLoop(recs, LabelKeys(sec),
                          [enriched |-> <<>>,
                           map |-> loadConfigDefinitionsMap(project, global),
                           caller |-> <<>>])
    IN [enriched |-> st.enriched \o MapValues(st.map), map |-> st.map, caller |-> st.caller]

(***************************************************************************)
(* Org records.  Booleans are jsTrue / jsFalse; definitionSources is an    *)
(* array of strings, the empty array standing for an absent key.           *)
(***************************************************************************)
EmptyOrg ==
    [kind |-> "object", text |-> undefined,
     alias |-> undefined, name |-> undefined, org_name |-> undefined,
     config_name |-> undefined, key |-> undefined, config |-> undefined,
     domain |-> undefined, instance_url |-> undefined, login_url |-> undefined,
     days |-> undefined, value |-> undefined,
     scratch |-> undefined, scratch_org |-> undefined, is_scratch |-> undefined,
     isScratch |-> undefined, expired |-> undefined, orgCreated |-> undefined,
     active |-> undefined, is_active |-> undefined,
     definitionMissing |-> undefined, definitionOnly |-> undefined,
     definitionSources |-> <<>>]

undefinedOrg == [EmptyOrg EXCEPT !.kind = "undefined"]
OrgString(text) == [EmptyOrg EXCEPT !.kind = "string", !.text = text]

orgLabelKeys == <<"alias", "name", "org_name", "config_name", "key">>

\* Object.keys(data): the keys that can hold a string, label keys first
OrgObjectKeys ==
    <<"alias", "name", "org_name", "config_name", "key", "config", "domain",
      "instance_url", "login_url", "days", "value", "scratch", "scratch_org",
      "is_scratch", "isScratch", "expired", "orgCreated", "active", "is_active",
      "definitionMissing">>

normalizeAlias(alias) == Trim(alias)
aliasKey(alias) == ToLowerCase(normalizeAlias(alias))

TrueWords == {<<"t", "r", "u", "e">>, <<"y", "e", "s">>, <<"1">>}
FalseWords == {<<"f", "a", "l", "s", "e">>, <<"n", "o">>, <<"0">>}

RECURSIVE getBoolean(_, _)
getBoolean(record, keys) ==
    IF record.kind = "undefined" \/ keys = <<>> THEN undefined
    ELSE LET value == record[Head(keys)]
         IN IF value \in {jsTrue, jsFalse} THEN value
            ELSE IF IsString(value) /\ ToLowerCase(Trim(value)) \in TrueWords THEN jsTrue
            ELSE IF IsString(value) /\ ToLowerCase(Trim(value)) \in FalseWords THEN jsFalse
            ELSE getBoolean(record, Tail(keys))

\* new Set(...).add(source): insertion order, no duplicates
SetAdd(seq, x) == IF \E i \in 1..Len(seq) : seq[i] = x THEN seq ELSE Append(seq, x)

RECURSIVE SetAddAll(_, _)
SetAddAll(seq, xs) ==
    IF xs = <<>> THEN seq ELSE SetAddAll(SetAdd(seq, Head(xs)), Tail(xs))

toStringArray(value) ==
    SelectSeq([i \in 1..Len(value) |-> Trim(value[i])], LAMBDA e : e # <<>>)

(***************************************************************************)
(* JSON record extractor: the alias-map shape                              *)
(***************************************************************************)
JsonArray(items) == [kind |-> "array", items |-> items]
JsonObject(entries) == [kind |-> "entries", entries |-> entries]

\* Array.isArray(value)
IsArray(value) == value.kind = "array"

\* value && typeof value === 'object' && !Array.isArray(value)
IsObject(value) == value.kind \in {"object", "entries"}

mapEntryToRecord(key, entryValue) ==
    IF IsObject(entryValue)
    THEN LET value == IF entryValue.kind = "entries" THEN EmptyOrg ELSE entryValue
             aliasFromValue == IF IsString(value.alias) THEN Trim(value.alias) ELSE <<>>
             alias == IF aliasFromValue # <<>> THEN aliasFromValue ELSE key
             configValue == IF IsString(value.config) /\ Trim(value.config) # <<>>
                            THEN Trim(value.config) ELSE undefined
         IN [value EXCEPT
                !.alias = alias,
                !.name = IF ~IsString(@) \/ Trim(@) = <<>> THEN alias ELSE @,
                !.config_name = IF @ = undefined
                                THEN (IF configValue # undefined THEN configValue ELSE alias)
                                ELSE @,
                !.key = IF @ = undefined THEN alias ELSE @,
                !.orgCreated = IF @ = undefined /\ value.expired \in {jsTrue, jsFalse}
                               THEN (IF value.expired = jsTrue THEN jsFalse ELSE jsTrue)
                               ELSE @]
    ELSE [EmptyOrg EXCEPT !.alias = key,
                          !.value = IF entryValue.kind = "string" THEN entryValue.text
                                    ELSE undefined]

mapEntriesToRecords(map) == [i \in 1..Len(map) |-> mapEntryToRecord(map[i][1], map[i][2])]

(***************************************************************************)
(* JSON values.  A parsed object whose keys are record fields is a record  *)
(* (kind "object"); an object with other keys carries its entries in order *)
(* (kind "entries"); an array carries its items; a string is kind          *)
(* "string", any other primitive kind "other".                             *)
(***************************************************************************)
\* the field names of a record as strings
FieldText ==
    [alias |-> <<"a", "l", "i", "a", "s">>,
     name |-> <<"n", "a", "m", "e">>,
     org_name |-> <<"o", "r", "g", "_", "n", "a", "m", "e">>,
     config_name |-> <<"c", "o", "n", "f", "i", "g", "_", "n", "a", "m", "e">>,
     key |-> <<"k", "e", "y">>,
     config |-> <<"c", "o", "n", "f", "i", "g">>,
     domain |-> <<"d", "o", "m", "a", "i", "n">>,
     instance_url |-> <<"i", "n", "s", "t", "a", "n", "c", "e", "_", "u", "r", "l">>,
     login_url |-> <<"l", "o", "g", "i", "n", "_", "u", "r", "l">>,
     days |-> <<"d", "a", "y", "s">>,
     value |-> <<"v", "a", "l", "u", "e">>,
     scratch |-> <<"s", "c", "r", "a", "t", "c", "h">>,
     scratch_org |-> <<"s", "c", "r", "a", "t", "c", "h", "_", "o", "r", "g">>,
     is_scratch |-> <<"i", "s", "_", "s", "c", "r", "a", "t", "c", "h">>,
     isScratch |-> <<"i", "s", "S", "c", "r", "a", "t", "c", "h">>,
     expired |-> <<"e", "x", "p", "i", "r", "e", "d">>,
     orgCreated |-> <<"o", "r", "g", "C", "r", "e", "a", "t", "e", "d">>,
     active |-> <<"a", "c", "t", "i", "v", "e">>,
     is_active |-> <<"i", "s", "_", "a", "c", "t", "i", "v", "e">>,
     definitionMissing |-> <<"d", "e", "f", "i", "n", "i", "t", "i", "o", "n", "M", "i", "s", "s", "i", "n", "g">>,
     definitionOnly |-> <<"d", "e", "f", "i", "n", "i", "t", "i", "o", "n", "O", "n", "l", "y">>]

\* Object.entries(value): of a record, its defined fields in key order
ObjectEntries(value) ==
    IF value.kind = "entries" THEN value.entries
    ELSE LET present == SelectSeq(OrgObjectKeys, LAMBDA f : value[f] # undefined)
         IN [i \in 1..Len(present) |->
               <<FieldText[present[i]],
                 IF value[present[i]] \in {jsTrue, jsFalse}
                 THEN [EmptyOrg EXCEPT !.kind = "other"]
                 ELSE OrgString(value[present[i]])>>]

isAliasRecordMap(entries) ==
    Len(entries) > 0 /\ \A i \in 1..Len(entries) : IsObject(entries[i][2])

\* variant: the last array-typed top-level value is returned
normalizeJsonRecords_lastArray(value, arrayKey) ==
    IF IsArray(value) THEN value.items
    ELSE IF IsObject(value)
    THEN LET entries == ObjectEntries(value)
             hasPreferred == MapHas(entries, arrayKey)
             preferred == MapGet(entries, arrayKey)
             arrays == {i \in 1..Len(entries) : IsArray(entries[i][2])}
         IN IF hasPreferred /\ IsArray(preferred) THEN preferred.items
            ELSE IF hasPreferred /\ IsObject(preferred)
            THEN mapEntriesToRecords(ObjectEntries(preferred))
            ELSE IF arrays # {}
            THEN entries[CHOOSE i \in arrays : \A j \in arrays : i >= j][2].items
            ELSE IF isAliasRecordMap(entries) THEN mapEntriesToRecords(entries)
            ELSE <<value>>
    ELSE <<>>

normalizeJsonRecords(value, arrayKey) ==
    IF IsArray(value) THEN value.items
    ELSE IF IsObject(value)
    THEN LET entries == ObjectEntries(value)
             hasPreferred == MapHas(entries, arrayKey)
             preferred == MapGet(entries, arrayKey)
             arrays == {i \in 1..Len(entries) : IsArray(entries[i][2])}
         IN IF hasPreferred /\ IsArray(preferred) THEN preferred.items
            ELSE IF hasPreferred /\ IsObject(preferred)
            THEN mapEntriesToRecords(ObjectEntries(preferred))
            ELSE IF arrays # {}
            THEN entries[CHOOSE i \in arrays : \A j \in arrays : i <= j][2].items
            ELSE IF isAliasRecordMap(entries) THEN mapEntriesToRecords(entries)
            ELSE <<value>>
    ELSE <<>>

orgs == <<"o", "r", "g", "s">>

\* the parsed `cci org list --json` output: an array of records, or an alias
\* map under the key 'orgs'
OrgJsonValue(shape, entries) ==
    IF shape = "array" THEN JsonArray([i \in 1..Len(entries) |-> entries[i][2]])
    ELSE JsonObject(<<<<orgs, JsonObject(entries)>>>>)

(***************************************************************************)
(* Scratch-org definitions (OrgDefinitionMeta)                             *)
(***************************************************************************)
ConfigLabel == <<"cumulusci.yml">>

\* a directory entry [base, ext, isFile] is the file <base>.<ext> (ext in lower case)
RECURSIVE collectOrgsDirectoryDefinitions(_)
collectOrgsDirectoryDefinitions(entries) ==
    IF entries = <<>> THEN <<>>
    ELSE LET e == Head(entries)
             rest == collectOrgsDirectoryDefinitions(Tail(entries))
             alias == normalizeAlias(e.base)
             relativePath == <<"orgs/">> \o e.base \o <<".", e.ext>>
         IN IF ~e.isFile \/ e.ext \notin {"yml", "yaml", "json"} \/ alias = <<>>
            THEN rest
            ELSE <<[alias |-> alias, configPath |-> relativePath, isScratch |-> jsTrue,
                    sources |-> <<relativePath>>]>> \o rest

\* addDefinition(alias, value) for every entry [alias, valueKind, text] of
\* orgs.scratch: text is the string value, or the object's config_file
RECURSIVE collectConfigScratchDefinitions(_)
collectConfigScratchDefinitions(entries) ==
    IF entries = <<>> THEN <<>>
    ELSE LET e == Head(entries)
             rest == collectConfigScratchDefinitions(Tail(entries))
             normalizedAlias == normalizeAlias(e.alias)
             configPath ==
                 IF e.valueKind = "string" THEN e.text
                 ELSE IF e.valueKind = "object" /\ IsString(e.text) /\ Trim(e.text) # <<>>
                 THEN Trim(e.text)
                 ELSE undefined
             sources == IF Truthy(configPath) THEN <<ConfigLabel, configPath>>
                        ELSE <<ConfigLabel>>
         IN IF normalizedAlias = <<>> THEN rest
            ELSE <<[alias |-> normalizedAlias, configPath |-> configPath,
                    isScratch |-> jsTrue, sources |-> sources]>> \o rest

mergeOrgDefinition(target, meta) ==
    LET key == aliasKey(meta.alias)
    IN IF MapHas(target, key)
       THEN LET existing == MapGet(target, key)
            IN MapSet(target, key,
                 [existing EXCEPT
                    !.configPath = IF ~Truthy(@) /\ Truthy(meta.configPath)
                                   THEN meta.configPath ELSE @,
                    !.isScratch = IF @ # undefined THEN @ ELSE meta.isScratch,
                    !.sources = SetAddAll(@, meta.sources)])
       ELSE MapSet(target, key,
                 [alias |-> normalizeAlias(meta.alias), configPath |-> meta.configPath,
                  isScratch |-> meta.isScratch, sources |-> SetAddAll(<<>>, meta.sources)])

RECURSIVE MergeAll(_, _)
MergeAll(target, metas) ==
    IF metas = <<>> THEN target
    ELSE MergeAll(mergeOrgDefinition(target, Head(metas)), Tail(metas))

getOrgDefinitions(dir, scratch) ==
    MergeAll(MergeAll(<<>>, collectOrgsDirectoryDefinitions(dir)),
             collectConfigScratchDefinitions(scratch))

(***************************************************************************)
(* Derived-state calculator: createOrgEntry                                *)
(***************************************************************************)
Bool(v) == v = jsTrue
FromBool(b) == IF b THEN jsTrue ELSE jsFalse

\* variant: the final `if (!hasDomain)` override dropped
createOrgEntry_noDomainOverride(record) ==
    LET byLabel == pickFirstString(record, orgLabelKeys)
        alias == IF byLabel # undefined THEN byLabel ELSE pickFirstString(record, OrgObjectKeys)
        isScratch == Bool(getBoolean(record, <<"scratch", "scratch_org", "is_scratch", "isScratch">>))
        expired == Bool(getBoolean(record, <<"expired">>))
        baseActive == getBoolean(record, <<"orgCreated", "active", "is_active">>)
        domain == pickFirstString(record, <<"domain", "instance_url", "login_url">>)
        definitionOnly == record.definitionOnly = jsTrue
        definitionMissing == Bool(getBoolean(record, <<"definitionMissing">>))
        hasDomain == IsString(domain) /\ domain # <<>>
        orgCreated ==
            IF definitionMissing \/ definitionOnly THEN FALSE
            ELSE IF isScratch
            THEN (IF baseActive # undefined THEN Bool(baseActive) ELSE hasDomain /\ ~expired)
            ELSE (IF baseActive # undefined THEN Bool(baseActive) ELSE hasDomain)
    IN [alias |-> alias, isScratch |-> isScratch, orgCreated |-> orgCreated,
        expired |-> expired, definitionOnly |-> definitionOnly,
        definitionMissing |-> definitionMissing,
        data |-> [record EXCEPT
                    !.alias = alias,
                    !.name = IF ~IsString(@) \/ Trim(@) = <<>> THEN alias ELSE @,
                    !.config_name =
                        IF @ # undefined THEN @
                        ELSE IF IsString(record.config) /\ Trim(record.config) # <<>>
                        THEN Trim(record.config) ELSE alias,
                    !.orgCreated = FromBool(orgCreated),
                    !.expired = FromBool(expired),
                    !.definitionOnly = FromBool(definitionOnly),
                    !.definitionSources = IF toStringArray(@) # <<>> THEN toStringArray(@) ELSE @,
                    !.definitionMissing = IF definitionMissing THEN jsTrue ELSE @]]

\* an entry whose alias is undefined stands for the `undefined` return value
createOrgEntry(record) ==
    LET byLabel == pickFirstString(record, orgLabelKeys)
        alias == IF byLabel # undefined THEN byLabel ELSE pickFirstString(record, OrgObjectKeys)
        isScratch == Bool(getBoolean(record, <<"scratch", "scratch_org", "is_scratch", "isScratch">>))
        expired == Bool(getBoolean(record, <<"expired">>))
        baseActive == getBoolean(record, <<"orgCreated", "active", "is_active">>)
        domain == pickFirstString(record, <<"domain", "instance_url", "login_url">>)
        definitionOnly == record.definitionOnly = jsTrue
        definitionMissing == Bool(getBoolean(record, <<"definitionMissing">>))
        hasDomain == IsString(domain) /\ domain # <<>>
        decided ==
            IF definitionMissing \/ definitionOnly THEN FALSE
            ELSE IF isScratch
            THEN (IF baseActive # undefined THEN Bool(baseActive) ELSE hasDomain /\ ~expired)
            ELSE (IF baseActive # undefined THEN Bool(baseActive) ELSE hasDomain)
        orgCreated == IF ~hasDomain THEN FALSE ELSE decided
    IN [alias |-> alias, isScratch |-> isScratch, orgCreated |-> orgCreated,
        expired |-> expired, definitionOnly |-> definitionOnly,
        definitionMissing |-> definitionMissing,
        data |-> [record EXCEPT
                    !.alias = alias,
                    !.name = IF ~IsString(@) \/ Trim(@) = <<>> THEN alias ELSE @,
                    !.config_name =
                        IF @ # undefined THEN @
                        ELSE IF IsString(record.config) /\ Trim(record.config) # <<>>
                        THEN Trim(record.config) ELSE alias,
                    !.orgCreated = FromBool(orgCreated),
                    !.expired = FromBool(expired),
                    !.definitionOnly = FromBool(definitionOnly),
                    !.definitionSources = IF toStringArray(@) # <<>> THEN toStringArray(@) ELSE @,
                    !.definitionMissing = IF definitionMissing THEN jsTrue ELSE @]]

(***************************************************************************)
(* String.prototype.localeCompare and Array.prototype.sort                 *)
(***************************************************************************)
CharOrder ==
    <<" ", "-", ":", ".", "@", "/", "0", "1", "2", "3", "4", "5", "6", "7", "8", "9",
      "a", "b", "c", "d", "e", "f", "g", "h", "i", "j", "k", "l", "m", "n", "o", "p",
      "q", "r", "s", "t", "u", "v", "w", "x", "y", "z">>

CharRank(c) ==
    IF \E i \in 1..Len(CharOrder) : CharOrder[i] = c
    THEN CHOOSE i \in 1..Len(CharOrder) : CharOrder[i] = c
    ELSE 0

\* lexicographic comparison of rank sequences: -1, 0 or 1
RECURSIVE CompareRanks(_, _)
CompareRanks(a, b) ==
    IF a = <<>> /\ b = <<>> THEN 0
    ELSE IF a = <<>> THEN 0 - 1
    ELSE IF b = <<>> THEN 1
    ELSE IF Head(a) < Head(b) THEN 0 - 1
    ELSE IF Head(a) > Head(b) THEN 1
    ELSE CompareRanks(Tail(a), Tail(b))

\* letters compare first without case; on a tie lower case sorts first
localeCompare(a, b) ==
    LET primary == CompareRanks([i \in 1..Len(a) |-> CharRank(LowerChar(a[i]))],
                                [i \in 1..Len(b) |-> CharRank(LowerChar(b[i]))])
    IN IF primary # 0 THEN primary
       ELSE CompareRanks([i \in 1..Len(a) |-> IF LowerChar(a[i]) = a[i] THEN 0 ELSE 1],
                         [i \in 1..Len(b) |-> IF LowerChar(b[i]) = b[i] THEN 0 ELSE 1])

RECURSIVE InsertEntry(_, _)
InsertEntry(sorted, e) ==
    IF sorted = <<>> THEN <<e>>
    ELSE IF localeCompare(e.alias, sorted[Len(sorted)].alias) >= 0 THEN Append(sorted, e)
    ELSE Append(InsertEntry(SubSeq(sorted, 1, Len(sorted) - 1), e), sorted[Len(sorted)])

\* entries.sort((a, b) => a.alias.localeCompare(b.alias)), a stable sort
RECURSIVE SortEntries(_)
SortEntries(entries) ==
    IF entries = <<>> THEN <<>>
    ELSE InsertEntry(SortEntries(SubSeq(entries, 1, Len(entries) - 1)), entries[Len(entries)])

(***************************************************************************)
(* Entity reconciler (orgs): getOrgEntries                                 *)
(***************************************************************************)
\* the live-record loop: st = [merged, definitions]
RECURSIVE OrgLiveLoop(_, _)
OrgLiveLoop(rest, st) ==
    IF rest = <<>> THEN st
    ELSE LET record == Head(rest)
             working0 ==
                 IF record.kind = "object" THEN record
                 ELSE IF record.kind = "string" /\ Trim(record.text) # <<>>
                 THEN [EmptyOrg EXCEPT !.alias = normalizeAlias(Trim(record.text)),
                                       !.name = normalizeAlias(Trim(record.text))]
                 ELSE undefinedOrg
             picked == pickFirstString(working0, orgLabelKeys)
             fromAlias == IF ~Truthy(picked) /\ IsString(working0.alias)
                          THEN working0.alias ELSE picked
             aliasValue == IF ~Truthy(fromAlias) /\ IsString(working0.name)
                           THEN working0.name ELSE fromAlias
         IN IF working0 = undefinedOrg \/ ~Truthy(aliasValue)
            THEN OrgLiveLoop(Tail(rest), st)
            ELSE LET normalizedAlias == normalizeAlias(aliasValue)
                     working1 ==
                         [working0 EXCEPT
                            !.alias = normalizedAlias,
                            !.name = IF ~IsString(@) \/ Trim(@) = <<>>
                                     THEN normalizedAlias ELSE @,
                            !.config_name =
                                IF @ = undefined
                                THEN (IF IsString(working0.config) THEN working0.config
                                      ELSE normalizedAlias)
                                ELSE @]
                     key == aliasKey(normalizedAlias)
                     found == MapHas(st.definitions, key)
                     definition == MapGet(st.definitions, key)
                     ownSources == toStringArray(working1.definitionSources)
                     working2 ==
                         IF found
                         THEN [working1 EXCEPT
                                 !.config = IF ~Truthy(@) /\ Truthy(definition.configPath)
                                            THEN definition.configPath ELSE @,
                                 !.is_scratch = IF definition.isScratch # undefined
                                                THEN definition.isScratch ELSE @,
                                 !.definitionSources = SetAddAll(SetAddAll(<<>>, ownSources),
                                                                definition.sources),
                                 !.definitionOnly = jsFalse]
                         ELSE [working1 EXCEPT
                                 !.definitionMissing = IF working1.is_scratch = jsTrue
                                                       THEN jsTrue ELSE @,
                                 !.definitionSources = SetAddAll(<<>>, ownSources),
                                 !.definitionOnly = jsFalse]
                 IN OrgLiveLoop(Tail(rest),
                        [merged |-> MapSet(st.merged, key, working2),
                         definitions |-> IF found THEN MapDelete(st.definitions, key)
                                         ELSE st.definitions])

\* the loop over the definitions left in the pool
RECURSIVE OrgStubLoop(_, _)
OrgStubLoop(rest, merged) ==
    IF rest = <<>> THEN merged
    ELSE LET definition == Head(rest)
             normalizedAlias == normalizeAlias(definition.alias)
             key == aliasKey(normalizedAlias)
             stub == [EmptyOrg EXCEPT
                        !.alias = normalizedAlias,
                        !.name = normalizedAlias,
                        !.config = definition.configPath,
                        !.config_name = IF definition.configPath # undefined
                                        THEN definition.configPath ELSE normalizedAlias,
                        !.is_scratch = IF definition.isScratch # undefined
                                       THEN definition.isScratch ELSE jsTrue,
                        !.orgCreated = jsFalse,
                        !.expired = jsFalse,
                        !.definitionOnly = jsTrue,
                        !.definitionSources = definition.sources]
         IN IF normalizedAlias = <<>> \/ MapHas(merged, key)
            THEN OrgStubLoop(Tail(rest), merged)
            ELSE OrgStubLoop(Tail(rest), MapSet(merged, key, stub))

\* variant: the definitions left in the pool are not turned into stubs
getOrgEntries_liveOnly(liveRecords, dir, scratch) ==
    LET entriesOf(merged) ==
            SortEntries(SelectSeq([i \in 1..Len(merged) |-> createOrgEntry(merged[i][2])],
                                  LAMBDA e : e.alias # undefined))
        afterLive(st) == [entries |-> entriesOf(st.merged), definitions |-> st.definitions]
    IN afterLive(OrgLiveLoop(liveRecords,
                             [merged |-> <<>>, definitions |-> getOrgDefinitions(dir, scratch)]))

getOrgEntries(liveRecords, dir, scratch) ==
    LET entriesOf(merged) ==
            SortEntries(SelectSeq([i \in 1..Len(merged) |-> createOrgEntry(merged[i][2])],
                                  LAMBDA e : e.alias # undefined))
        afterLive(st) ==
            [entries |-> entriesOf(OrgStubLoop(MapValues(st.definitions), st.merged)),
             definitions |-> st.definitions]
    IN afterLive(OrgLiveLoop(liveRecords,
                             [merged |-> <<>>, definitions |-> getOrgDefinitions(dir, scratch)]))

(***************************************************************************)
(* Service tables: parseServiceListOutput, parseServiceInfoOutput.  The    *)
(* output is the sequence of its lines (cleaned.split(/\r?\n/)).           *)
(***************************************************************************)
NotFound == 0 - 1

\* String.prototype.indexOf(sub, from), zero-based
IndexOf(s, sub, from) ==
    LET hits == {i \in from..(Len(s) - Len(sub)) : SubSeq(s, i + 1, i + Len(sub)) = sub}
    IN IF hits = {} THEN NotFound ELSE CHOOSE i \in hits : \A j \in hits : i <= j

\* String.prototype.includes
Includes(s, sub) == IndexOf(s, sub, 0) # NotFound

\* String.prototype.slice(from, to) for non-negative arguments
Slice(s, from, to) ==
    LET b == IF to > Len(s) THEN Len(s) ELSE to
    IN IF from >= b THEN <<>> ELSE SubSeq(s, from + 1, b)

\* value.replace(/\s+/g, '')
RemoveWhitespace(s) == SelectSeq(s, LAMBDA c : c # " ")

\* "-" and U+2500 (written "_rule_")
RuleChars == {"-", "_rule_"}

\* /[─\-]{3,}/.test(line.replace(/\s+/g, ''))
ContainsRule(line) ==
    LET t == RemoveWhitespace(line)
    IN \E i \in 1..(Len(t) - 2) : \A j \in i..(i + 2) : t[j] \in RuleChars

\* /^[─\-]{3,}$/.test(trimmedLine.replace(/\s+/g, ''))
IsRuleLine(line) ==
    LET t == RemoveWhitespace(line)
    IN Len(t) >= 3 /\ \A j \in 1..Len(t) : t[j] \in RuleChars

\* value.replace(/\s+/g, ' '): every run of spaces becomes one space
RECURSIVE CollapseWhitespace(_)
CollapseWhitespace(s) ==
    IF Len(s) < 2 THEN s
    ELSE IF s[1] = " " /\ s[2] = " " THEN CollapseWhitespace(Tail(s))
    ELSE <<s[1]>> \o CollapseWhitespace(Tail(s))

normalizeServiceDescription(value) ==
    IF value = <<>> THEN <<>> ELSE Trim(CollapseWhitespace(value))

appendWrappedText(existing, addition) ==
    LET base == normalizeServiceDescription(existing)
        extra == normalizeServiceDescription(addition)
    IN IF base = <<>> THEN extra
       ELSE IF extra = <<>> THEN base
       ELSE Trim(base \o <<" ">> \o extra)

\* lines.findIndex(pred) as a zero-based index, NotFound when no line matches
FindIndex(lines, Pred(_, _)) ==
    LET hits == {i \in 0..(Len(lines) - 1) : Pred(lines[i + 1], i)}
    IN IF hits = {} THEN NotFound ELSE CHOOSE i \in hits : \A j \in hits : i <= j

DefaultWord == <<"D", "e", "f", "a", "u", "l", "t">>
TypeWord == <<"T", "y", "p", "e">>
NameWord == <<"N", "a", "m", "e">>
DescriptionWord == <<"D", "e", "s", "c", "r", "i", "p", "t", "i", "o", "n">>
KeyWord == <<"K", "e", "y">>
ValueWord == <<"V", "a", "l", "u", "e">>
\* U+2714
CheckMark == <<"_check_">>

IsListHeader(line, index) ==
    /\ Includes(line, DefaultWord)
    /\ Includes(line, TypeWord)
    /\ Includes(line, NameWord)
    /\ Includes(line, DescriptionWord)

IsInfoHeader(line, index) == Includes(line, KeyWord) /\ Includes(line, ValueWord)

\* lines.findIndex((line, index) => index > headerIndex && <rule test>)
SeparatorIndex(lines, headerIndex) ==
    LET hits == {i \in (headerIndex + 1)..(Len(lines) - 1) : ContainsRule(lines[i + 1])}
    IN IF hits = {} THEN NotFound ELSE CHOOSE i \in hits : \A j \in hits : i <= j

FirstDataIndex(lines, headerIndex) ==
    IF SeparatorIndex(lines, headerIndex) >= 0
    THEN SeparatorIndex(lines, headerIndex) + 1
    ELSE headerIndex + 1

\* the loop of parseServiceListOutput over lines[i..]; rows is the array, the
\* row `current` is its last element once one was pushed
RECURSIVE ServiceListLoop(_, _, _, _)
ServiceListLoop(lines, i, cols, rows) ==
    IF i >= Len(lines) THEN rows
    ELSE LET line == lines[i + 1]
             defaultCol == Trim(Slice(line, 0, cols.typeStart))
             typeCol == Trim(Slice(line, cols.typeStart, cols.nameStart))
             nameCol == Trim(Slice(line, cols.nameStart, cols.descriptionStart))
             descCol == IF cols.descriptionStart < Len(line)
                        THEN Trim(Slice(line, cols.descriptionStart, Len(line))) ELSE <<>>
             isContinuation == defaultCol = <<>> /\ typeCol = <<>> /\ nameCol = <<>>
                               /\ Len(descCol) > 0
             n == Len(rows)
         IN IF line = <<>> \/ Trim(line) = <<>> \/ IsRuleLine(Trim(line))
            THEN ServiceListLoop(lines, i + 1, cols, rows)
            ELSE IF isContinuation /\ n > 0
            THEN ServiceListLoop(lines, i + 1, cols,
                     [rows EXCEPT ![n].description = appendWrappedText(@, descCol)])
            ELSE IF typeCol = <<>> /\ nameCol = <<>> /\ defaultCol = <<>>
            THEN ServiceListLoop(lines, i + 1, cols, rows)
            ELSE ServiceListLoop(lines, i + 1, cols,
                     Append(rows, [type |-> typeCol,
                                   name |-> IF nameCol = <<>> THEN undefined ELSE nameCol,
                                   isDefault |-> Includes(defaultCol, CheckMark),
                                   description |-> descCol]))

parseServiceListOutput(lines) ==
    LET headerIndex == FindIndex(lines, IsListHeader)
        headerLine == lines[headerIndex + 1]
        defaultStart == IndexOf(headerLine, DefaultWord, 0)
        typeStart == IndexOf(headerLine, TypeWord, Max(defaultStart, 0))
        nameStart == IndexOf(headerLine, NameWord, Max(typeStart, 0))
        descriptionStart == IndexOf(headerLine, DescriptionWord, Max(nameStart, 0))
        rows == ServiceListLoop(lines, FirstDataIndex(lines, headerIndex),
                                [typeStart |-> typeStart, nameStart |-> nameStart,
                                 descriptionStart |-> descriptionStart], <<>>)
    IN IF \A k \in 1..Len(lines) : Trim(lines[k]) = <<>> THEN <<>>
       ELSE IF headerIndex = NotFound THEN <<>>
       ELSE IF typeStart < 0 \/ nameStart < 0 \/ descriptionStart < 0 THEN <<>>
       ELSE [k \in 1..Len(rows) |->
                [rows[k] EXCEPT !.type = Trim(@),
                                !.description = normalizeServiceDescription(@)]]

\* the loop of parseServiceInfoOutput
RECURSIVE ServiceInfoLoop(_, _, _, _)
ServiceInfoLoop(lines, i, cols, entries) ==
    IF i >= Len(lines) THEN entries
    ELSE LET line == lines[i + 1]
             key == Trim(Slice(line, cols.keyStart, cols.valueStart))
             value == IF cols.valueStart < Len(line)
                      THEN Trim(Slice(line, cols.valueStart, Len(line))) ELSE <<>>
             n == Len(entries)
         IN IF line = <<>> \/ Trim(line) = <<>> \/ IsRuleLine(Trim(line))
            THEN ServiceInfoLoop(lines, i + 1, cols, entries)
            ELSE IF key # <<>>
            THEN ServiceInfoLoop(lines, i + 1, cols,
                     Append(entries, [key |-> key,
                                      value |-> normalizeServiceDescription(value)]))
            ELSE IF n > 0 /\ value # <<>>
            THEN ServiceInfoLoop(lines, i + 1, cols,
                     [entries EXCEPT ![n].value = appendWrappedText(@, value)])
            ELSE ServiceInfoLoop(lines, i + 1, cols, entries)

\* result.entries of parseServiceInfoOutput
parseServiceInfoOutput(lines) ==
    LET headerIndex == FindIndex(lines, IsInfoHeader)
        headerLine == lines[headerIndex + 1]
        keyStart == IndexOf(headerLine, KeyWord, 0)
        valueStart == IndexOf(headerLine, ValueWord, Max(keyStart, 0))
        entries == ServiceInfoLoop(lines, FirstDataIndex(lines, headerIndex),
                                   [keyStart |-> keyStart, valueStart |-> valueStart], <<>>)
    IN IF headerIndex = NotFound THEN <<>>
       ELSE IF keyStart < 0 \/ valueStart < 0 THEN <<>>
       ELSE [k \in 1..Len(entries) |->
                [entries[k] EXCEPT !.value = normalizeServiceDescription(@)]]

(***************************************************************************)
(* parseJsonRecords.  JSON.parse is the inverse of the serialization of    *)
(* the JSON values the CLI can print (JsonValues): a text that is the      *)
(* serialization of none of them is a syntax error.                        *)
(***************************************************************************)
Quote == <<"\"">>

RECURSIVE JoinTexts(_)
JoinTexts(texts) ==
    IF texts = <<>> THEN <<>>
    ELSE IF Len(texts) = 1 THEN texts[1]
    ELSE texts[1] \o <<",">> \o JoinTexts(Tail(texts))

\* the JSON text of a value, without insignificant whitespace
RECURSIVE Stringify(_)
Stringify(value) ==
    IF value.kind = "string" THEN Quote \o value.text \o Quote
    ELSE IF value.kind = "other" THEN <<"1">>
    ELSE IF value.kind = "array"
    THEN <<"[">> \o JoinTexts([i \in 1..Len(value.items) |-> Stringify(value.items[i])])
         \o <<"]">>
    ELSE IF value.kind = "entries"
    THEN <<"{">> \o JoinTexts([i \in 1..Len(value.entries) |->
                     Quote \o value.entries[i][1] \o Quote \o <<":">>
                     \o Stringify(value.entries[i][2])]) \o <<"}">>
    ELSE LET present == SelectSeq(OrgObjectKeys, LAMBDA f : value[f] # undefined)
         IN <<"{">> \o JoinTexts([i \in 1..Len(present) |->
                     Quote \o FieldText[present[i]] \o Quote \o <<":">>
                     \o (IF value[present[i]] = jsTrue THEN <<"t", "r", "u", "e">>
                         ELSE IF value[present[i]] = jsFalse THEN <<"f", "a", "l", "s", "e">>
                         ELSE Quote \o value[present[i]] \o Quote)]) \o <<"}">>

(***************************************************************************)
(* Task/flow presenter: buildGroupedItems                                  *)
(***************************************************************************)
groupKeys == <<"group", "category", "type">>
taskDescriptionKeys == <<"description", "group">>

\* Object.keys(data) of a task or flow record, in the order the keys are set
RecordKeys == <<"name", "task_name", "flow", "description", "group", "configSource">>

\* the keys of `keys` the object has (record[key] of any other is undefined)
OwnKeys(record, keys) == SelectSeq(keys, LAMBDA k : k \in DOMAIN record)

TaskKind == <<"t", "a", "s", "k">>
FlowKind == <<"f", "l", "o", "w">>
Unnamed == <<"U", "n", "n", "a", "m", "e", "d">>
Bullet == <<" ", "_bullet_", " ">>

\* `Local ${itemKind}s` and `Workspace ${itemKind}s`
LocalCategory(itemKind) == <<"L", "o", "c", "a", "l", " ">> \o itemKind \o <<"s">>
WorkspaceCategory(itemKind) == <<"W", "o", "r", "k", "s", "p", "a", "c", "e", " ">> \o itemKind \o <<"s">>

\* the label of a record's item
ItemLabel(record, labelKeys) ==
    LET data == toRecord(record)
    IN IF data # undefinedRecord
       THEN IF pickFirstString(data, labelKeys) # undefined
            THEN pickFirstString(data, labelKeys)
            ELSE IF pickFirstString(data, OwnKeys(data, RecordKeys)) # undefined
            THEN pickFirstString(data, OwnKeys(data, RecordKeys))
            ELSE Unnamed
       ELSE IF record.kind = "string" THEN record.text
       ELSE Unnamed

\* description and source description joined by a bullet; undefined when empty
ItemDescription(record) ==
    LET data == toRecord(record)
        description == pickFirstString(data, OwnKeys(data, taskDescriptionKeys))
        sourceDescription == IF data.configSource = <<"project">> THEN <<"P", "r", "o", "j", "e", "c", "t", " ", "c", "o", "n", "f", "i", "g">>
                             ELSE IF data.configSource = <<"global">> THEN <<"W", "o", "r", "k", "s", "p", "a", "c", "e", " ", "c", "o", "n", "f", "i", "g">>
                             ELSE undefined
        combined == IF description # undefined /\ sourceDescription # undefined
                    THEN description \o Bullet \o sourceDescription
                    ELSE IF description # undefined THEN description
                    ELSE IF sourceDescription # undefined THEN sourceDescription
                    ELSE <<>>
    IN IF combined # <<>> THEN combined ELSE undefined

\* the bucket a record's item is put in
groupKey(record, itemKind) ==
    LET data == toRecord(record)
        groupName == pickFirstString(data, OwnKeys(data, groupKeys))
    IN IF data.configSource = <<"project">> THEN LocalCategory(itemKind)
       ELSE IF data.configSource = <<"global">> THEN WorkspaceCategory(itemKind)
       ELSE IF groupName # undefined /\ Trim(groupName) # <<>> THEN Trim(groupName)
       ELSE Ungrouped

TreeItem(record, labelKeys, itemKind) ==
    [label |-> ItemLabel(record, labelKeys),
     description |-> ItemDescription(record),
     itemKind |-> itemKind,
     data |-> toRecord(record),
     children |-> <<>>]

GroupItem(label, children) ==
    [label |-> label, description |-> undefined, itemKind |-> <<"g", "r", "o", "u", "p">>,
     data |-> undefinedRecord, children |-> children]

\* the `for (const record of records)` loop filling the groups Map
RECURSIVE GroupLoop(_, _, _, _)
GroupLoop(rest, labelKeys, itemKind, groups) ==
    IF rest = <<>> THEN groups
    ELSE LET key == groupKey(Head(rest), itemKind)
             item == TreeItem(Head(rest), labelKeys, itemKind)
             sofar == IF MapHas(groups, key) THEN MapGet(groups, key) ELSE <<>>
         IN GroupLoop(Tail(rest), labelKeys, itemKind,
                      MapSet(groups, key, Append(sofar, item)))

RECURSIVE InsertByLabel(_, _)
InsertByLabel(sorted, item) ==
    IF sorted = <<>> THEN <<item>>
    ELSE IF localeCompare(item.label, sorted[Len(sorted)].label) >= 0 THEN Append(sorted, item)
    ELSE Append(InsertByLabel(SubSeq(sorted, 1, Len(sorted) - 1), item), sorted[Len(sorted)])

\* items.sort((a, b) => a.label.localeCompare(b.label)), a stable sort
RECURSIVE SortByLabel(_)
SortByLabel(items) ==
    IF items = <<>> THEN <<>>
    ELSE InsertByLabel(SortByLabel(SubSeq(items, 1, Len(items) - 1)), items[Len(items)])

\* orderedCategories.indexOf(category)
CategoryIndex(category, itemKind) ==
    IF category = LocalCategory(itemKind) THEN 0
    ELSE IF category = WorkspaceCategory(itemKind) THEN 1
    ELSE NotFound

\* variant: the buckets are compared by name only
compareCategories_alphabetical(a, b, itemKind) == localeCompare(a, b)

\* the comparator of the bucket sort
compareCategories(a, b, itemKind) ==
    LET indexA == CategoryIndex(a, itemKind)
        indexB == CategoryIndex(b, itemKind)
    IN IF indexA # NotFound \/ indexB # NotFound
       THEN IF indexA = NotFound THEN 1
            ELSE IF indexB = NotFound THEN 0 - 1
            ELSE indexA - indexB
       ELSE localeCompare(a, b)

RECURSIVE InsertCategory(_, _, _)
InsertCategory(sorted, entry, itemKind) ==
    IF sorted = <<>> THEN <<entry>>
    ELSE IF compareCategories(entry[1], sorted[Len(sorted)][1], itemKind) >= 0
    THEN Append(sorted, entry)
    ELSE Append(InsertCategory(SubSeq(sorted, 1, Len(sorted) - 1), entry, itemKind),
                sorted[Len(sorted)])

\* Array.from(groups.entries()).sort(...), a stable sort
RECURSIVE SortCategories(_, _)
SortCategories(entries, itemKind) ==
    IF entries = <<>> THEN <<>>
    ELSE InsertCategory(SortCategories(SubSeq(entries, 1, Len(entries) - 1), itemKind),
                        entries[Len(entries)], itemKind)

\* variant: the list is flat as soon as there is an 'Ungrouped' bucket
buildGroupedItems_flatWithUngrouped(recs, labelKeys, itemKind) ==
    LET groups == GroupLoop(recs, labelKeys, itemKind, <<>>)
        sorted == SortCategories(groups, itemKind)
    IN IF MapHas(groups, Ungrouped)
       THEN SortByLabel(MapGet(groups, Ungrouped))
       ELSE [i \in 1..Len(sorted) |-> GroupItem(sorted[i][1], SortByLabel(sorted[i][2]))]

buildGroupedItems(recs, labelKeys, itemKind) ==
    LET groups == GroupLoop(recs, labelKeys, itemKind, <<>>)
        sorted == SortCategories(groups, itemKind)
    IN IF Len(groups) = 1 /\ MapHas(groups, Ungrouped)
       THEN SortByLabel(MapGet(groups, Ungrouped))
       ELSE [i \in 1..Len(sorted) |-> GroupItem(sorted[i][1], SortByLabel(sorted[i][2]))]

(***************************************************************************)
(* Tree provider: getChildren.  A folder is [name, load]; load is what     *)
(* loadItemsForFolder does for it: [kind |-> "items", items |-> ...] or    *)
(* [kind |-> "throws", message |-> ...].                                   *)
(***************************************************************************)
RootItem(label, description, itemKind, children) ==
    [label |-> label, description |-> description, itemKind |-> itemKind,
     children |-> children]

emptyStateLabel(kind) ==
    IF kind = "orgs" THEN <<"N", "o", " ", "o", "r", "g", "s", " ", "f", "o", "u", "n", "d", " ", "i", "n", " ", "C", "C", "I", " ", "p", "r", "o", "j", "e", "c", "t">>
    ELSE IF kind = "tasks" THEN <<"N", "o", " ", "t", "a", "s", "k", "s", " ", "d", "e", "f", "i", "n", "e", "d", " ", "i", "n", " ", "C", "C", "I", " ", "p", "r", "o", "j", "e", "c", "t">>
    ELSE IF kind = "flows" THEN <<"N", "o", " ", "f", "l", "o", "w", "s", " ", "d", "e", "f", "i", "n", "e", "d", " ", "i", "n", " ", "C", "C", "I", " ", "p", "r", "o", "j", "e", "c", "t">>
    ELSE <<"P", "r", "o", "j", "e", "c", "t", " ", "i", "n", "f", "o", " ", "u", "n", "a", "v", "a", "i", "l", "a", "b", "l", "e">>

\* the `for (const folder of projectFolders)` loop; the first load that throws
\* ends it: [thrown, message, items]
RECURSIVE FolderLoop(_, _, _)
FolderLoop(rest, single, items) ==
    IF rest = <<>> THEN [thrown |-> FALSE, message |-> undefined, items |-> items]
    ELSE LET folder == Head(rest)
         IN IF folder.load.kind = "throws"
            THEN [thrown |-> TRUE, message |-> folder.load.message, items |-> items]
            ELSE FolderLoop(Tail(rest), single,
                    IF single THEN items \o folder.load.items
                    ELSE Append(items, RootItem(folder.name, undefined, <<"f", "o", "l", "d", "e", "r">>,
                                                folder.load.items)))

getChildren(kind, folders) ==
    LET loop == FolderLoop(folders, Len(folders) = 1, <<>>)
    IN IF folders = <<>>
       THEN <<RootItem(<<"N", "o", " ", "C", "u", "m", "u", "l", "u", "s", "C", "I", " ", "p", "r", "o", "j", "e", "c", "t", " ", "f", "o", "u", "n", "d", " ", "i", "n", " ", "w", "o", "r", "k", "s", "p", "a", "c", "e">>,
                       <<"O", "p", "e", "n", " ", "a", " ", "f", "o", "l", "d", "e", "r", " ", "c", "o", "n", "t", "a", "i", "n", "i", "n", "g", " ", "c", "u", "m", "u", "l", "u", "s", "c", "i", ".", "y", "m", "l">>, <<"m", "e", "s", "s", "a", "g", "e">>, <<>>)>>
       ELSE IF loop.thrown
       THEN <<RootItem(<<"F", "a", "i", "l", "e", "d", " ", "t", "o", " ", "l", "o", "a", "d", " ">> \o kind, loop.message, <<"e", "r", "r", "o", "r">>, <<>>)>>
       ELSE IF loop.items = <<>>
       THEN <<RootItem(emptyStateLabel(kind), undefined, <<"m", "e", "s", "s", "a", "g", "e">>, <<>>)>>
       ELSE loop.items

(***************************************************************************)
(* Inputs                                                                  *)
(***************************************************************************)
DayChars == {"0", "1", "3", "/", " ", ".", "-", "a"}

DayInputs == {undefined} \cup UNION {[1..n -> DayChars] : n \in 0..MaxDayLen}

deploy == <<"d", "e", "p">>
Deploy == <<"D", "e", "p">>
deployPadded == <<" ", "d", "e", "p", " ">>
build == <<"b", "l", "d">>
blank == <<" ">>
liveDesc == <<"l", "i", "v", "e", " ", "d", "e", "s", "c">>
configDesc == <<"c", "o", "n", "f", "i", "g", " ", "d", "e", "s", "c">>
Custom == <<"C", "u", "s", "t", "o", "m">>

LivePool ==
    { [EmptyRecord EXCEPT !.name = deploy, !.description = liveDesc],
      [EmptyRecord EXCEPT !.name = Deploy, !.group = Ungrouped],
      [EmptyRecord EXCEPT !.name = blank, !.task_name = deployPadded, !.flow = Deploy,
                          !.description = <<>>, !.group = <<"L", "i", "v", "e">>],
      [EmptyRecord EXCEPT !.description = liveDesc],
      StringValue(deploy),
      StringValue(blank),
      OtherValue }

ConfigEntry(name, shape, description, group) ==
    [name |-> name, shape |-> shape, description |-> description, group |-> group]

ProjectPool ==
    { ConfigEntry(deploy, "mapping", configDesc, Custom),
      ConfigEntry(Deploy, "string", <<"o", "t", "h", "e", "r", " ", "d", "e", "s", "c">>, undefined),
      ConfigEntry(blank, "mapping", undefined, undefined) }

GlobalPool ==
    { ConfigEntry(deployPadded, "mapping", <<"g", "l", "o", "b", "a", "l", " ", "d", "e", "s", "c">>, <<>>),
      ConfigEntry(build, "other", undefined, undefined) }

SeqsUpTo(S, n) == UNION {[1..k -> S] : k \in 0..n}

qa == <<"q", "a">>
QA == <<"Q", "A">>
qaPadded == <<" ", "q", "a">>
dev == <<"d", "e", "v">>
url == <<"x", ".", "i", "o">>
yes == <<"y", "e", "s">>

\* live org values for listings of several records
OrgLivePool ==
    { [EmptyOrg EXCEPT !.alias = qa, !.is_scratch = jsTrue, !.domain = url, !.expired = jsFalse],
      [EmptyOrg EXCEPT !.alias = QA, !.instance_url = url],
      [EmptyOrg EXCEPT !.name = qaPadded, !.scratch = yes],
      [EmptyOrg EXCEPT !.alias = dev, !.domain = url, !.active = jsTrue],
      [EmptyOrg EXCEPT !.alias = blank, !.config = qa],
      [EmptyOrg EXCEPT !.domain = url, !.config = blank],
      OrgString(dev) }

\* entries of the alias-map shape { "<alias>": { ... } }
OrgMapPool ==
    { <<qa, [EmptyOrg EXCEPT !.instance_url = url, !.expired = jsTrue]>>,
      <<dev, [EmptyOrg EXCEPT !.alias = dev, !.is_scratch = jsTrue, !.expired = jsFalse,
                              !.domain = url]>>,
      <<QA, OrgString(url)>> }

\* one live record with every combination of the signals createOrgEntry reads
OrgSignalRecords ==
    { [EmptyOrg EXCEPT !.alias = dev, !.domain = d, !.login_url = l, !.is_scratch = s,
                       !.expired = e, !.orgCreated = c, !.active = a, !.is_active = ia] :
        d \in {undefined, url, blank}, l \in {undefined, url},
        s \in {undefined, jsTrue, jsFalse}, e \in {undefined, jsTrue},
        c \in {undefined, jsTrue}, a \in {undefined, jsTrue, jsFalse},
        ia \in {undefined, yes} }

DirEntry(base, ext, isFile) == [base |-> base, ext |-> ext, isFile |-> isFile]
ScratchEntry(alias, valueKind, text) == [alias |-> alias, valueKind |-> valueKind, text |-> text]

OrgsDirectoryPool ==
    { DirEntry(qa, "yml", TRUE), DirEntry(QA, "json", TRUE), DirEntry(dev, "txt", TRUE) }

ScratchSectionPool ==
    { ScratchEntry(qaPadded, "object", <<"orgs/beta.yml">>),
      ScratchEntry(<<"b", "e", "t", "a">>, "undefined", undefined) }

DistinctAt(seq, k) == \A i, j \in 1..Len(seq) : i # j => seq[i][k] # seq[j][k]
Distinct(seq) == \A i, j \in 1..Len(seq) : i # j => seq[i] # seq[j]

\* <<shape, entries>> of the parsed `cci org list --json` output
OrgJsonInputs ==
    {<<"array", [i \in 1..Len(vs) |-> <<<<>>, vs[i]>>]>> : vs \in SeqsUpTo(OrgLivePool, MaxOrgLive)}
    \cup {<<"map", es>> : es \in {m \in SeqsUpTo(OrgMapPool, MaxOrgLive) : DistinctAt(m, 1)}}

OrgSignalInputs ==
    {<<"array", <<<<<<>>, r>>>>>> : r \in OrgSignalRecords}
    \cup {<<"map", <<<<dev, r>>>>>> : r \in OrgSignalRecords}


\* the keys of one YAML mapping are distinct
Pad(text, width) == text \o [i \in 1..(width - Len(text)) |-> " "]

\* a line of the `cci service list --plain` table
ListLine(default, type, name, description) ==
    Pad(default, 8) \o Pad(type, 5) \o Pad(name, 5) \o description

\* a line of the `cci service info` table
InfoLine(key, value) == Pad(key, 4) \o value

RuleLine == <<"-", "-", "-", "-", "-">>
BlankLine == <<" ", " ">>
ListHeader == ListLine(DefaultWord, TypeWord, NameWord, DescriptionWord)
InfoHeader == InfoLine(KeyWord, ValueWord)

ListLinePool ==
    { ListHeader, RuleLine, BlankLine,
      ListLine(<<>>, <<"g", "i", "t">>, <<"g", "h">>, <<"f", "i", "r", "s", "t", " ", " ", "p", "a", "r", "t">>),
      ListLine(CheckMark, <<"h", "u", "b">>, <<>>, <<>>),
      ListLine(<<>>, <<>>, <<>>, <<"m", "o", "r", "e", " ", "t", "e", "x", "t">>),
      ListLine(<<>>, <<>>, <<>>, <<"a", " ", "-", "-", "-", " ", "b">>) }

InfoLinePool ==
    { InfoHeader, RuleLine, BlankLine,
      InfoLine(<<"u", "r", "l">>, <<"x", ".", "i", "o", " ", " ", "y">>),
      InfoLine(<<"i", "d">>, <<>>),
      InfoLine(<<>>, <<"m", "o", "r", "e", " ", "t", "e", "x", "t">>),
      InfoLine(<<>>, <<"a", " ", "-", "-", "-", " ", "b">>) }

\* records of a JSON listing
JsonRecA == [EmptyOrg EXCEPT !.alias = QA, !.domain = url]
JsonRecB == [EmptyOrg EXCEPT !.alias = blank, !.expired = jsTrue]
JsonRecC == [EmptyOrg EXCEPT !.name = dev]

\* values found under a top-level key
JsonValuePool ==
    { OrgString(dev),
      JsonArray(<<JsonRecA>>),
      JsonArray(<<>>),
      JsonObject(<<<<qa, JsonRecC>>, <<dev, JsonRecA>>, <<QA, OrgString(url)>>>>),
      JsonRecA,
      JsonRecB }

JsonKeyPool == {orgs, qa, dev}

\* the JSON values the CLI can print
JsonValues ==
    {JsonArray(items) : items \in SeqsUpTo({JsonRecA, OrgString(dev)}, MaxJsonEntries)}
    \cup {JsonObject(entries) :
            entries \in {e \in SeqsUpTo(JsonKeyPool \X JsonValuePool, MaxJsonEntries) :
                           DistinctAt(e, 1)}}
    \cup {JsonRecA, JsonRecB, JsonRecC, OrgString(dev), [EmptyOrg EXCEPT !.kind = "other"]}

JsonTexts == {<<Stringify(v), v>> : v \in JsonValues}

\* log text printed before the JSON document
JsonBanners == {<<>>, <<"[", "i", "]", " ">>, <<"x", "{", " ">>}

ParseError == [kind |-> "error"]

\* JSON.parse(text): the value, or ParseError for a SyntaxError
JsonParse(text) ==
    LET hits == {p \in JsonTexts : p[1] = text}
    IN IF hits = {} THEN ParseError ELSE (CHOOSE p \in hits : TRUE)[2]

\* the candidate texts of parseJsonRecords, in the order they are tried
JsonAttempts(trimmed) ==
    LET objectStart == IndexOf(trimmed, <<"{">>, 0)
        arrayStart == IndexOf(trimmed, <<"[">>, 0)
        found == {objectStart, arrayStart} \ {NotFound}
        sorted == IF found = {} THEN <<>>
                  ELSE IF Cardinality(found) = 1 THEN <<CHOOSE i \in found : TRUE>>
                  ELSE IF objectStart < arrayStart THEN <<objectStart, arrayStart>>
                  ELSE <<arrayStart, objectStart>>
        candidates == [k \in 1..Len(sorted) |-> Trim(Slice(trimmed, sorted[k], Len(trimmed)))]
    IN <<trimmed>> \o SelectSeq(candidates, LAMBDA c : Len(c) > 0)

\* the loop over the attempts: `catch` moves on to the next candidate
RECURSIVE JsonAttemptLoop(_, _)
JsonAttemptLoop(attempts, arrayKey) ==
    IF attempts = <<>> THEN [raised |-> FALSE, records |-> <<>>]
    ELSE LET json == JsonParse(Head(attempts))
         IN IF json # ParseError
            THEN [raised |-> FALSE, records |-> normalizeJsonRecords(json, arrayKey)]
            ELSE JsonAttemptLoop(Tail(attempts), arrayKey)

\* variant: no try/catch around JSON.parse
parseJsonRecords_noCatch(stdout, arrayKey) ==
    LET trimmed == Trim(stdout)
        json == JsonParse(trimmed)
    IN IF trimmed = <<>> THEN [raised |-> FALSE, records |-> <<>>]
       ELSE IF json = ParseError THEN [raised |-> TRUE, records |-> <<>>]
       ELSE [raised |-> FALSE, records |-> normalizeJsonRecords(json, arrayKey)]

parseJsonRecords(stdout, arrayKey) ==
    LET trimmed == Trim(stdout)
    IN IF trimmed = <<>> THEN [raised |-> FALSE, records |-> <<>>]
       ELSE JsonAttemptLoop(JsonAttempts(trimmed), arrayKey)

(***************************************************************************)
(* CLI runner and fetchRecords.  A child process ends in an outcome:       *)
(* [kind |-> "ok", text |-> stdout], [kind |-> "fail", text |-> stderr] or *)
(* [kind |-> "enoent"] when the executable is missing.  The escape         *)
(* character is "_esc_".                                                   *)
(***************************************************************************)
Esc == "_esc_"
Letters ==
    {"a", "b", "c", "d", "e", "f", "g", "h", "i", "j", "k", "l", "m", "n", "o", "p", "q",
     "r", "s", "t", "u", "v", "w", "x", "y", "z"}
AnsiParameters == Digits \cup {";", "?"}

\* length of the match of /\u001b\[[0-9;?]*[A-Za-z]/ at the head of s, or 0
AnsiMatch(s) ==
    IF Len(s) < 3 \/ s[1] # Esc \/ s[2] # "[" THEN 0
    ELSE LET ends == {i \in 3..Len(s) :
                        /\ LowerChar(s[i]) \in Letters
                        /\ \A k \in 3..(i - 1) : s[k] \in AnsiParameters}
         IN IF ends = {} THEN 0 ELSE CHOOSE i \in ends : \A k \in ends : i <= k

\* value.replace(/\u001b\[[0-9;?]*[A-Za-z]/g, ''): no match begins inside another
stripAnsiSequences(value) ==
    LET removed == {k \in 1..Len(value) :
                      \E i \in 1..k :
                         /\ value[i] = Esc
                         /\ k < i + AnsiMatch(SubSeq(value, i, Len(value)))}
        kept == (1..Len(value)) \ removed
    IN [p \in 1..Cardinality(kept) |->
           value[CHOOSE k \in kept : Cardinality({j \in kept : j < k}) = p - 1]]

ToolNotFoundMessage == <<"C", "u", "m", "u", "l", "u", "s", "C", "I", " ", "C", "L", "I", " ", "(", "c", "c", "i", ")", " ", "n", "o", "t", " ", "f", "o", "u", "n", "d", ".">> \o <<"_install_guidance_">>
UnknownError == <<"U", "n", "k", "n", "o", "w", "n", " ", "C", "C", "I", " ", "C", "L", "I", " ", "e", "r", "r", "o", "r">>

\* the message of the Error runCciCommand throws for a failed child process
CommandError(outcome) ==
    IF outcome.kind = "enoent" THEN ToolNotFoundMessage
    ELSE LET sanitized == Trim(stripAnsiSequences(outcome.text))
         IN IF sanitized # <<>> THEN sanitized ELSE UnknownError

JsonFlag == <<"-", "-", "j", "s", "o", "n">>

\* variant: every failure of the first call is taken for an unsupported flag
didFailDueToJsonFlag_always(message) == TRUE

\* /--json/i.test(message) || /no such option/i.test(message)
didFailDueToJsonFlag(message) ==
    \/ Includes(ToLowerCase(message), JsonFlag)
    \/ Includes(ToLowerCase(message), <<"n", "o", " ", "s", "u", "c", "h", " ", "o", "p", "t", "i", "o", "n">>)

\* stdout.split(/\r?\n/)
RECURSIVE SplitLines(_)
SplitLines(text) ==
    LET at == IndexOf(text, <<"\n">>, 0)
        line == Slice(text, 0, at)
    IN IF at = NotFound THEN <<text>>
       ELSE <<IF line # <<>> /\ line[Len(line)] = "\r"
              THEN SubSeq(line, 1, Len(line) - 1) ELSE line>>
            \o SplitLines(Slice(text, at + 1, Len(text)))

\* /^[-=]+$/ and /^Name\s+/i
IsRuleText(line) == line # <<>> /\ \A i \in 1..Len(line) : line[i] \in {"-", "="}
IsNameHeader(line) ==
    /\ Len(line) >= 5
    /\ ToLowerCase(SubSeq(line, 1, 4)) = <<"n", "a", "m", "e">>
    /\ line[5] \in WhiteSpace

parseTextRecords(stdout) ==
    LET lines == SplitLines(stdout)
        trimmed == [i \in 1..Len(lines) |-> Trim(lines[i])]
        kept == SelectSeq(trimmed, LAMBDA line :
                    line # <<>> /\ ~IsRuleText(line) /\ ~IsNameHeader(line))
    IN [i \in 1..Len(kept) |-> StringValue(kept[i])]

(***************************************************************************)
(* Org detail: parseJsonObject and getOrgInfo                              *)
(***************************************************************************)
\* the candidate texts of parseJsonObject, in the order they are tried
ObjectAttempts(trimmed) ==
    LET firstBrace == IndexOf(trimmed, <<"{">>, 0)
    IN IF firstBrace > 0
       THEN <<trimmed, Trim(Slice(trimmed, firstBrace, Len(trimmed)))>>
       ELSE <<trimmed>>

\* the loop over the attempts: a text that does not parse, or parses to
\* something that is no object, moves on to the next candidate
RECURSIVE ObjectAttemptLoop(_)
ObjectAttemptLoop(attempts) ==
    IF attempts = <<>> THEN undefinedOrg
    ELSE LET parsed == JsonParse(Head(attempts))
         IN IF parsed # ParseError /\ IsObject(parsed) THEN parsed
            ELSE ObjectAttemptLoop(Tail(attempts))

parseJsonObject(stdout) ==
    LET trimmed == Trim(stdout)
    IN IF trimmed = <<>> THEN undefinedOrg ELSE ObjectAttemptLoop(ObjectAttempts(trimmed))

ParseFailedMessage == <<"F", "a", "i", "l", "e", "d", " ", "t", "o", " ", "p", "a", "r", "s", "e", " ", "C", "C", "I", " ", "o", "r", "g", " ", "i", "n", "f", "o", " ", "o", "u", "t", "p", "u", "t", " ", "a", "s", " ", "J", "S", "O", "N", ".">>

\* outcome: the outcome of `cci org info <alias> --json`
getOrgInfo(outcome) ==
    LET data == parseJsonObject(outcome.text)
    IN IF outcome.kind # "ok"
       THEN [thrown |-> TRUE, error |-> CommandError(outcome), data |-> undefinedOrg]
       ELSE IF data = undefinedOrg
       THEN [thrown |-> TRUE, error |-> ParseFailedMessage, data |-> undefinedOrg]
       ELSE [thrown |-> FALSE, error |-> undefined, data |-> data]

(***************************************************************************)
(* Default-org status bar: updateDefaultOrgStatus, handleExpiryNotification *)
(***************************************************************************)
scratchKeys == <<"is_scratch", "scratch", "scratch_org", "isScratch">>

\* expiryState[alias] of an alias that is no key of the object
Absent == 0 - 2

\* clearState: `delete expiryState[alias]`
clearState(expiryState, alias) == [expiryState EXCEPT ![alias] = Absent]

\* handleExpiryNotification up to its first await: stored is what
\* workspaceState.get returned, the result is the edited copy and the
\* notification that is put up ("none" when the function runs to its end)
handleExpiryNotification(stored, entry) ==
    LET alias == entry.alias
        data == entry.data
        isScratch == getBoolean(data, scratchKeys) = jsTrue
        expired == getBoolean(data, <<"expired">>) = jsTrue
        dayCount == parseScratchDayCount(pickFirstString(data, <<"days">>))
        remaining == dayCount.remaining
        total == dayCount.total
        cleared == [expiryState |-> clearState(stored, alias), shown |-> "none"]
    IN IF ~isScratch THEN cleared
       ELSE IF expired
       THEN IF stored[alias] # 0 - 1
            THEN [expiryState |-> [stored EXCEPT ![alias] = 0 - 1], shown |-> "error"]
            ELSE [expiryState |-> stored, shown |-> "none"]
       ELSE IF remaining # undefNum /\ total # undefNum /\ remaining <= 2
       THEN IF stored[alias] # remaining
            THEN [expiryState |-> [stored EXCEPT ![alias] = remaining], shown |-> "warning"]
            ELSE [expiryState |-> stored, shown |-> "none"]
       ELSE cleared

\* the text set at construction (its ellipsis is written as three dots)
LoadingText == <<"$", "(", "o", "r", "g", "a", "n", "i", "z", "a", "t", "i", "o", "n", ")", " ", "L", "o", "a", "d", "i", "n", "g", ".", ".", ".">>
NoDefaultText == <<"$", "(", "o", "r", "g", "a", "n", "i", "z", "a", "t", "i", "o", "n", ")", " ", "N", "o", " ", "d", "e", "f", "a", "u", "l", "t", " ", "o", "r", "g">>
UnavailableText == <<"$", "(", "o", "r", "g", "a", "n", "i", "z", "a", "t", "i", "o", "n", ")", " ", "O", "r", "g", " ", "s", "t", "a", "t", "u", "s", " ", "u", "n", "a", "v", "a", "i", "l", "a", "b", "l", "e">>
DefaultText(alias) == <<"$", "(", "o", "r", "g", "a", "n", "i", "z", "a", "t", "i", "o", "n", ")", " ", "D", "e", "f", "a", "u", "l", "t", " ", "C", "C", "I", " ", "O", "r", "g", ":", " ">> \o alias

(***************************************************************************)
(* Service listing: getServiceTypeGroups                                   *)
(***************************************************************************)
UpperLetters ==
    {"A", "B", "C", "D", "E", "F", "G", "H", "I", "J", "K", "L", "M", "N", "O", "P", "Q",
     "R", "S", "T", "U", "V", "W", "X", "Y", "Z"}
UpperChar(c) ==
    IF \E u \in UpperLetters : LowerChar(u) = c
    THEN CHOOSE u \in UpperLetters : LowerChar(u) = c ELSE c

\* Array.prototype.sort with a comparator, a stable sort
SortWith(items, Compare(_, _)) ==
    LET n == Len(items)
        Position(i) ==
            1 + Cardinality({j \in 1..n :
                    \/ Compare(items[j], items[i]) < 0
                    \/ Compare(items[j], items[i]) = 0 /\ j < i})
    IN [p \in 1..n |-> items[CHOOSE i \in 1..n : Position(i) = p]]

capitalizeServiceSegment(segment) ==
    LET lower == ToLowerCase(segment)
    IN IF lower = <<"o", "a", "u", "t", "h", "2">> THEN <<"O", "A", "u", "t", "h", "2">>
       ELSE IF lower = <<"g", "i", "t", "h", "u", "b">> THEN <<"G", "i", "t", "H", "u", "b">>
       ELSE IF lower = <<"d", "e", "v", "h", "u", "b">> THEN <<"D", "e", "v", " ", "H", "u", "b">>
       ELSE IF lower = <<"m", "e", "t", "a", "c", "i">> THEN <<"M", "e", "t", "a", "C", "I">>
       ELSE IF lower = <<"m", "e", "t", "a", "d", "e", "p", "l", "o", "y">> THEN <<"M", "e", "t", "a", "D", "e", "p", "l", "o", "y">>
       ELSE IF lower = <<"s", "f", "d", "x">> THEN <<"S", "F", "D", "X">>
       ELSE IF segment = <<>> THEN <<>>
       ELSE <<UpperChar(Head(segment))>> \o Tail(segment)

\* trimmed.split(/[_-]+/).filter((part) => part.length > 0)
RECURSIVE SplitSegments(_, _)
SplitSegments(text, part) ==
    IF text = <<>> THEN IF part = <<>> THEN <<>> ELSE <<part>>
    ELSE IF Head(text) \in {"_", "-"}
    THEN (IF part = <<>> THEN <<>> ELSE <<part>>) \o SplitSegments(Tail(text), <<>>)
    ELSE SplitSegments(Tail(text), Append(part, Head(text)))

RECURSIVE JoinWords(_)
JoinWords(parts) ==
    IF parts = <<>> THEN <<>>
    ELSE IF Len(parts) = 1 THEN parts[1]
    ELSE parts[1] \o <<" ">> \o JoinWords(Tail(parts))

formatServiceTypeLabel(type) ==
    LET trimmed == Trim(type)
        parts == SplitSegments(trimmed, <<>>)
    IN IF trimmed = <<>> THEN <<"S", "e", "r", "v", "i", "c", "e">>
       ELSE IF parts = <<>> THEN capitalizeServiceSegment(trimmed)
       ELSE JoinWords([i \in 1..Len(parts) |-> capitalizeServiceSegment(parts[i])])

\* the conversion loop of fetchServiceTypeMetadata over the entries
\* <<type, value>> of the parsed document; a value is
\* [kind, description, attributes], attributes being the attribute names
RECURSIVE MetadataLoop(_, _)
MetadataLoop(entries, metadata) ==
    IF entries = <<>> THEN metadata
    ELSE LET type == Head(entries)[1]
             value == Head(entries)[2]
             description == IF IsString(value.description) /\ Trim(value.description) # <<>>
                            THEN Trim(value.description) ELSE <<>>
         IN IF value.kind # "object" THEN MetadataLoop(Tail(entries), metadata)
            ELSE MetadataLoop(Tail(entries),
                    MapSet(metadata, type,
                           [description |-> description,
                            attributes |-> SortWith(value.attributes, localeCompare)]))

\* outcome: the outcome of `cci service list --json`, with the object
\* parseJsonObject finds in its stdout (undefined when it finds none)
fetchServiceTypeMetadata(outcome) ==
    IF outcome.kind = "ok"
    THEN [thrown |-> FALSE, error |-> undefined,
          metadata |-> IF outcome.doc = undefined THEN <<>>
                       ELSE MetadataLoop(outcome.doc, <<>>)]
    ELSE IF didFailDueToJsonFlag(CommandError(outcome))
    THEN [thrown |-> FALSE, error |-> undefined, metadata |-> <<>>]
    ELSE [thrown |-> FALSE, error |-> undefined, metadata |-> <<>>]

\* the row loop of groupServiceRows filling the buckets Map
RECURSIVE BucketLoop(_, _)
BucketLoop(rows, buckets) ==
    IF rows = <<>> THEN buckets
    ELSE LET row == Head(rows)
             key == Trim(row.type)
             bucket == IF MapHas(buckets, key) THEN MapGet(buckets, key)
                       ELSE [description |-> <<>>, entries |-> <<>>]
             description == normalizeServiceDescription(row.description)
             described == IF description # <<>> /\ bucket.description = <<>>
                          THEN [bucket EXCEPT !.description = description] ELSE bucket
             filled == IF row.name # undefined /\ row.name # <<>>
                       THEN [described EXCEPT !.entries =
                                Append(@, [name |-> row.name, description |-> description,
                                           isDefault |-> row.isDefault])]
                       ELSE described
         IN IF key = <<>> THEN BucketLoop(Tail(rows), buckets)
            ELSE BucketLoop(Tail(rows), MapSet(buckets, key, filled))

\* default entries first, then by name
compareServiceEntries(a, b) ==
    IF a.isDefault # b.isDefault THEN (IF a.isDefault THEN 0 - 1 ELSE 1)
    ELSE localeCompare(a.name, b.name)

compareGroupLabels(a, b) == localeCompare(a.label, b.label)

groupServiceRows(rows, metadata) ==
    LET buckets == BucketLoop(rows, <<>>)
        groups == [i \in 1..Len(buckets) |->
                     LET type == buckets[i][1]
                         bucket == buckets[i][2]
                         hasMeta == MapHas(metadata, type)
                     IN [type |-> type,
                         label |-> formatServiceTypeLabel(type),
                         description |-> IF bucket.description # <<>> THEN bucket.description
                                         ELSE IF hasMeta THEN MapGet(metadata, type).description
                                         ELSE <<>>,
                         entries |-> SortWith(bucket.entries, compareServiceEntries),
                         attributes |-> IF hasMeta THEN MapGet(metadata, type).attributes
                                        ELSE <<>>]]
    IN SortWith(groups, compareGroupLabels)

\* plain, meta: the outcomes of the two child processes; calls: the argument
\* lists of those spawned
getServiceTypeGroups(plain, meta) ==
    LET first == <<<<"s", "e", "r", "v", "i", "c", "e">>, <<"l", "i", "s", "t">>, <<"-", "-", "p", "l", "a", "i", "n">>>>
        second == <<<<"s", "e", "r", "v", "i", "c", "e">>, <<"l", "i", "s", "t">>, JsonFlag>>
        rows == parseServiceListOutput(SplitLines(stripAnsiSequences(plain.text)))
        fetched == fetchServiceTypeMetadata(meta)
    IN IF plain.kind # "ok"
       THEN [thrown |-> TRUE, error |-> CommandError(plain), groups |-> <<>>,
             calls |-> <<first>>]
       ELSE IF rows = <<>>
       THEN [thrown |-> FALSE, error |-> undefined, groups |-> <<>>, calls |-> <<first>>]
       ELSE IF fetched.thrown
       THEN [thrown |-> TRUE, error |-> fetched.error, groups |-> <<>>,
             calls |-> <<first, second>>]
       ELSE [thrown |-> FALSE, error |-> undefined,
             groups |-> groupServiceRows(rows, fetched.metadata),
             calls |-> <<first, second>>]

\* records as includeConfigDefinitions returns them to the presenter
Apps == <<"A", "p", "p", "s">>
Zed == <<"Z", "e", "d">>

PresentPool ==
    { [EmptyRecord EXCEPT !.name = <<"b">>],
      [EmptyRecord EXCEPT !.name = <<"a">>, !.group = <<" ">> \o Zed],
      [EmptyRecord EXCEPT !.name = <<"A">>, !.group = Ungrouped],
      [EmptyRecord EXCEPT !.name = <<"c">>, !.configSource = <<"project">>,
                          !.group = ProjectConfigGroup],
      [EmptyRecord EXCEPT !.name = <<"a">>, !.configSource = <<"global">>,
                          !.group = WorkspaceConfigGroup],
      [EmptyRecord EXCEPT !.name = <<"d">>, !.group = Apps, !.description = liveDesc],
      [EmptyRecord EXCEPT !.name = <<"b">>, !.group = Apps],
      [EmptyRecord EXCEPT !.flow = <<"e">>, !.group = <<" ">>],
      StringValue(<<"c">>) }

\* the listings fetchRecords is called for: <<baseArgs, arrayKey>>
ListingPool ==
    { <<<<<<"o", "r", "g">>, <<"l", "i", "s", "t">>>>, orgs>>,
      <<<<<<"t", "a", "s", "k">>, <<"l", "i", "s", "t">>>>, <<"t", "a", "s", "k", "s">>>>,
      <<<<<<"f", "l", "o", "w">>, <<"l", "i", "s", "t">>>>, <<"f", "l", "o", "w", "s">>>> }

Outcome(kind, text) == [kind |-> kind, text |-> text]
NoFetch == [format |-> "none", records |-> <<>>, error |-> undefined]

JsonStdoutPool ==
    { Stringify(JsonArray(<<JsonRecA>>)) \o <<"\n">>,
      Stringify(JsonArray(<<>>)),
      <<"N", "a", "m", "e", " ", " ", "D", "e", "s", "c">> \o <<"\n">> \o <<"d", "e", "p">> }

TextStdoutPool ==
    { <<>>,
      <<"N", "a", "m", "e", " ", " ", "D", "e", "s", "c">> \o <<"\r", "\n">> \o <<"-", "-", "-", "-">> \o <<"\r", "\n">> \o <<" ", "d", "e", "p", " ", " ", "x", " ">>
          \o <<"\n", "\n">> \o <<"b", "l", "d">> \o <<"\n">>,
      <<"n", "a", "m", "e">> \o <<"\n">> \o <<"=", "-", "=">> \o <<"\n">> \o <<"-", "x", "-">> }

StderrPool ==
    { <<"E", "r", "r", "o", "r", ":", " ", "N", "o", " ", "s", "u", "c", "h", " ", "o", "p", "t", "i", "o", "n", ":", " ", "-", "-", "j", "s", "o", "n">> \o <<"\n">>,
      <<"n", "o", " ", "S", "U", "C", "H", " ", "o", "p", "t", "i", "o", "n", " ", "-", "j">>,
      <<"u", "s", "a", "g", "e", ":", " ", "c", "c", "i", " ", "o", "r", "g", " ", "l", "i", "s", "t", " ", "-", "-", "J", "S", "O", "N">>,
      <<Esc>> \o <<"[", "3", "1", "m">> \o <<"b", "o", "o", "m">> \o <<Esc>> \o <<"[", "0", "m">> \o <<"\n">>,
      <<"n", "o", " ", "s", "u", "c", "h", " ", "o", "r", "g">>,
      <<>> }

CliFailures == {Outcome("fail", text) : text \in StderrPool} \cup {[kind |-> "enoent", text |-> <<>>]}
JsonCallOutcomes == {Outcome("ok", text) : text \in JsonStdoutPool} \cup CliFailures
TextCallOutcomes == {Outcome("ok", text) : text \in TextStdoutPool} \cup CliFailures

\* folders and what loading their entities gives
FolderNames == {<<"f", "a">>, <<"f", "b">>, <<"f", "c">>}
Leaf(label) == RootItem(label, undefined, <<"i", "t", "e", "m">>, <<>>)
FolderLoads ==
    { [kind |-> "items", items |-> <<>>],
      [kind |-> "items", items |-> <<Leaf(deploy)>>],
      [kind |-> "items", items |-> <<Leaf(build), Leaf(deploy)>>],
      [kind |-> "throws", message |-> <<"b", "o", "o", "m">>],
      [kind |-> "throws", message |-> ToolNotFoundMessage] }
FolderPool == {[name |-> n, load |-> l] : n \in FolderNames, l \in FolderLoads}
ViewKinds == {"orgs", "tasks", "flows", "project", "services"}

\* outcomes of the two child processes of the service listing
MetaOutcome(kind, text, doc) == [kind |-> kind, text |-> text, doc |-> doc]
NoGroups == [thrown |-> FALSE, error |-> undefined, groups |-> <<>>, calls |-> <<>>]

RECURSIVE JoinLines(_)
JoinLines(lines) ==
    IF lines = <<>> THEN <<>>
    ELSE IF Len(lines) = 1 THEN lines[1]
    ELSE lines[1] \o <<"\n">> \o JoinLines(Tail(lines))

ServiceStdoutPool ==
    { <<>>,
      JoinLines(<<ListHeader>>),
      JoinLines(<<ListHeader, RuleLine,
                  ListLine(<<>>, <<"g", "i", "t">>, <<"g", "h">>, <<"f", "i", "r", "s", "t", " ", " ", "p", "a", "r", "t">>),
                  ListLine(<<>>, <<>>, <<>>, <<"m", "o", "r", "e", " ", "t", "e", "x", "t">>),
                  ListLine(CheckMark, <<"g", "i", "t">>, <<"a">>, <<>>)>>),
      JoinLines(<<ListHeader, RuleLine,
                  ListLine(<<>>, <<"h", "u", "b">>, <<>>, <<>>),
                  <<Esc>> \o <<"[", "1", "m">> \o ListLine(<<>>, <<"d", "_", "x">>, <<"b">>, <<>>)>>) }

MetaValue(kind, description, attrs) ==
    [kind |-> kind, description |-> description, attributes |-> attrs]

MetaDocPool ==
    { undefined,
      <<>>,
      << <<<<"g", "i", "t">>, MetaValue("object", <<" ", "G", "i", "t", " ", "h", "o", "s", "t", " ">>, <<<<"t", "o", "k", "e", "n">>, <<"e", "m", "a", "i", "l">>>>)>>,
         <<<<"h", "u", "b">>, MetaValue("object", undefined, <<>>)>>,
         <<<<"d", "_", "x">>, MetaValue("other", undefined, <<>>)>> >> }

PlainOutcomes == {Outcome("ok", text) : text \in ServiceStdoutPool} \cup CliFailures
MetaOutcomes ==
    {MetaOutcome("ok", <<>>, doc) : doc \in MetaDocPool}
    \cup {MetaOutcome(f.kind, f.text, undefined) : f \in CliFailures}

\* stdout of `cci org info --json`: log text, a JSON document, possibly cut
NoInfo == [thrown |-> FALSE, error |-> undefined, data |-> undefinedOrg]
InfoDocuments ==
    {JsonArray(<<JsonRecA>>), JsonRecA, JsonRecB, OrgString(dev),
     JsonObject(<<<<qa, JsonRecC>>>>), JsonObject(<<>>)}
InfoStdoutPool ==
    {<<>>, <<" ">>}
    \cup {banner \o text \o <<"\n">> :
             banner \in JsonBanners, text \in {Stringify(v) : v \in InfoDocuments}}
    \cup {banner \o SubSeq(text, 1, Len(text) - 1) :
             banner \in JsonBanners, text \in {Stringify(v) : v \in InfoDocuments}}
    \cup {banner \o text \o <<" ", "o", "k">> :
             banner \in JsonBanners, text \in {Stringify(v) : v \in InfoDocuments}}
InfoOutcomes == {Outcome("ok", text) : text \in InfoStdoutPool} \cup CliFailures

\* the default org of the workspace: none, or the entry findDefaultOrg returns
StatusAliases == {dev, qa}
EmptyExpiryState == [alias \in StatusAliases |-> Absent]
NoDefault == [alias |-> undefined, data |-> undefinedOrg]
DefaultOrgPool ==
    {NoDefault,
     [alias |-> dev, data |-> [EmptyOrg EXCEPT !.alias = dev, !.is_scratch = jsTrue,
                                               !.expired = jsTrue, !.days = <<"7", "/", "7">>]],
     [alias |-> dev, data |-> [EmptyOrg EXCEPT !.alias = dev, !.scratch = <<"t", "r", "u", "e">>,
                                               !.expired = jsFalse, !.days = <<"6", "/", "7">>]],
     [alias |-> dev, data |-> [EmptyOrg EXCEPT !.alias = dev, !.is_scratch = jsTrue,
                                               !.days = <<"1", "/", "7">>]],
     [alias |-> dev, data |-> [EmptyOrg EXCEPT !.alias = dev, !.is_scratch = jsFalse]],
     [alias |-> qa, data |-> [EmptyOrg EXCEPT !.alias = qa, !.isScratch = jsTrue,
                                              !.days = <<"7", "/", "7">>]]}

\* one call of updateDefaultOrgStatus: where it waits, what findDefaultOrg gave
\* it, its copy of the cache and the write count at the time of the copy,
\* the last text it put in the status bar, and whether another call was in
\* flight at any time of its life
NewUpdate(overlapped) ==
    [pc |-> "findDefaultOrg", info |-> NoDefault, expiryState |-> EmptyExpiryState,
     readAt |-> 0, wrote |-> undefined, overlapped |-> overlapped]
InFlight(update) == update.pc # "done"
Finished(update, info, text) ==
    [update EXCEPT !.pc = "done", !.info = info, !.expiryState = EmptyExpiryState,
                   !.readAt = 0, !.wrote = text]

(***************************************************************************)
(* Service connect: the cumulusci.service.connect command                  *)
(***************************************************************************)
\* /[^A-Za-z0-9_@%+=:,./-]/ matches every character outside this set
SafeChars ==
    Letters \cup UpperLetters \cup Digits \cup {"_", "@", "%", "+", "=", ":", ",", ".", "/", "-"}
DoubleQuote == "\""
Backslash == "\\"
\* the grave accent, written out as a word
Backtick == "_grave_"
EscapedChars == {DoubleQuote, Backslash, "$", Backtick}

\* arg.replace(...): a backslash goes before each escaped character
RECURSIVE EscapeArg(_)
EscapeArg(arg) ==
    IF arg = <<>> THEN <<>>
    ELSE (IF Head(arg) \in EscapedChars THEN <<Backslash, Head(arg)>> ELSE <<Head(arg)>>)
            \o EscapeArg(Tail(arg))

quoteArg(arg) ==
    IF arg = <<>> THEN <<DoubleQuote, DoubleQuote>>
    ELSE IF \E i \in 1..Len(arg) : arg[i] \notin SafeChars
    THEN <<DoubleQuote>> \o EscapeArg(arg) \o <<DoubleQuote>>
    ELSE arg

\* variant: a blank answer for a required attribute ends the loop without a value
attributeInput_blankSkips(attribute, input) ==
    LET trimmed == Trim(input)
    IN IF input = undefined THEN [next |-> "return", value |-> undefined]
       ELSE IF trimmed = <<>>
       THEN [next |-> "break", value |-> attribute.defaultValue]
       ELSE [next |-> "break", value |-> trimmed]

\* one pass of the input loop of an attribute: input is what showInputBox
\* resolved to (undefined when the box was dismissed)
attributeInput(attribute, input) ==
    LET autoProvided == Truthy(attribute.defaultValue) \/ Truthy(attribute.defaultFactory)
        required == attribute.required /\ ~autoProvided
        trimmed == Trim(input)
    IN IF input = undefined THEN [next |-> "return", value |-> undefined]
       ELSE IF trimmed = <<>>
       THEN IF attribute.defaultValue # undefined
            THEN [next |-> "break", value |-> attribute.defaultValue]
            ELSE IF required THEN [next |-> "continue", value |-> undefined]
            ELSE [next |-> "break", value |-> undefined]
       ELSE [next |-> "break", value |-> trimmed]

\* commandParts after the name and flag prompts
baseCommandParts(type, name, toggleSelection) ==
    <<<<"c", "c", "i">>, <<"s", "e", "r", "v", "i", "c", "e">>, <<"c", "o", "n", "n", "e", "c", "t">>, type>>
        \o (IF name # <<>> THEN <<quoteArg(name)>> ELSE <<>>)
        \o toggleSelection

\* commandParts after the loop of an attribute has ended with value
withAttribute(parts, attribute, value) ==
    IF value # undefined
    THEN parts \o <<<<"-", "-">> \o attribute.name, quoteArg(value)>>
    ELSE parts

DistinctNames(entries) ==
    \A i, j \in 1..Len(entries) : i # j => entries[i].name # entries[j].name

\* service attributes as fetchServiceTypeMetadata builds them: a default
\* value or factory is undefined or a non-blank string (pickFirstString)
Attribute(name, required, sensitive, defaultValue, defaultFactory) ==
    [name |-> name, required |-> required, sensitive |-> sensitive,
     defaultValue |-> defaultValue, defaultFactory |-> defaultFactory]
AttributePool ==
    { Attribute(<<"t", "o", "k", "e", "n">>, TRUE, TRUE, undefined, undefined),
      Attribute(<<"e", "m", "a", "i", "l">>, FALSE, FALSE, undefined, undefined),
      Attribute(<<"u", "r", "l">>, TRUE, FALSE, <<"x", ".", "i", "o">>, undefined),
      Attribute(<<"k", "e", "y">>, TRUE, FALSE, undefined, <<"g", "e", "n">>) }
AttributeLists ==
    {a \in SeqsUpTo(AttributePool, MaxAttributes) : DistinctNames(a)}
git == <<"g", "i", "t">>
NoItem == [type |-> undefined, attributes |-> <<>>]
ConnectItems == {NoItem} \cup {[type |-> git, attributes |-> a] : a \in AttributeLists}
ServiceGroup(type, label, attrs) == [type |-> type, label |-> label, attributes |-> attrs]
ServiceGroupResults ==
    { [thrown |-> TRUE, groups |-> <<>>],
      [thrown |-> FALSE, groups |-> <<>>],
      [thrown |-> FALSE, groups |-> <<ServiceGroup(git, <<"G", "i", "t">>, <<>>)>>],
      [thrown |-> FALSE,
       groups |-> <<ServiceGroup(git, <<"G", "i", "t">>,
                                 <<Attribute(<<"t", "o", "k", "e", "n">>, TRUE, TRUE, undefined, undefined)>>)>>] }
TextInputs == {undefined, <<" ">>, <<"a", " ", "b">>}
NameInputs == {undefined, <<>>, <<"c", "i", " ">>}
ToggleSelections == {<<undefined>>, <<>>, <<<<"-", "-", "d", "e", "f", "a", "u", "l", "t">>>>}
Answer(kind, name, input) == [kind |-> kind, name |-> name, input |-> input]

(***************************************************************************)
(* Initial states and actions                                              *)
(***************************************************************************)
\* Everything outside the functions under study is left idle: no record, no
\* call made.
DayInit ==
    /\ dayInput \in DayInputs
    /\ dayParsed = NoBreakdown
    /\ dayDisplay = undefined
    /\ dayPc = {}
    /\ section = "tasks"
    /\ records = <<>>
    /\ projectSection = <<>>
    /\ globalSection = <<>>
    /\ configDefinitions = <<>>
    /\ taskRuns = <<>>
    /\ orgShape = "array"
    /\ orgJson = <<>>
    /\ orgsDirectory = <<>>
    /\ scratchSection = <<>>
    /\ definitions = <<>>
    /\ orgRuns = <<>>
    /\ tableKind = "list"
    /\ tableLines = <<>>
    /\ tableResult = <<>>
    /\ tableDone = FALSE
    /\ jsonStdout = <<>>
    /\ jsonValue = JsonArray(<<>>)
    /\ jsonKey = <<>>
    /\ jsonRecords = <<>>
    /\ jsonRaised = FALSE
    /\ jsonDone = FALSE
    /\ presentKind = TaskKind
    /\ presentRecords = <<>>
    /\ treeItems = <<>>
    /\ treeDone = FALSE
    /\ fetchArgs = <<>>
    /\ fetchKey = <<>>
    /\ cliLog = <<>>
    /\ cliExits = <<>>
    /\ fetchPc = "returned"
    /\ fetchOut = NoFetch
    /\ viewKind = "tasks"
    /\ projectFolders = <<>>
    /\ rootItems = <<>>
    /\ rootDone = FALSE
    /\ svcPlain = Outcome("ok", <<>>)
    /\ svcMeta = MetaOutcome("ok", <<>>, undefined)
    /\ svcOut = NoGroups
    /\ svcDone = FALSE
    /\ infoExit = Outcome("ok", <<>>)
    /\ infoOut = NoInfo
    /\ infoDone = FALSE
    /\ statusText = LoadingText
    /\ expiryNotified = EmptyExpiryState
    /\ storeWrites = 0
    /\ defaultOrg = NoDefault
    /\ updates = <<>>
    /\ shown = <<>>
    /\ connectItem = NoItem
    /\ serviceGroups = [thrown |-> FALSE, groups |-> <<>>]
    /\ connectPc = "idle"
    /\ connectType = undefined
    /\ attributes = <<>>
    /\ trimmedName = <<>>
    /\ commandParts = <<>>
    /\ attributeIndex = 0
    /\ answers = <<>>
    /\ terminalText = <<>>

TaskInit ==
    /\ section \in {"tasks", "flows"}
    /\ records \in SeqsUpTo(LivePool, MaxLive)
    /\ projectSection \in {e \in SeqsUpTo(ProjectPool, MaxProject) : DistinctNames(e)}
    /\ globalSection \in {e \in SeqsUpTo(GlobalPool, MaxGlobal) : DistinctNames(e)}
    /\ configDefinitions = <<>>
    /\ taskRuns = <<>>
    /\ dayInput = undefined
    /\ dayParsed = NoBreakdown
    /\ dayDisplay = undefined
    /\ dayPc = {}
    /\ orgShape = "array"
    /\ orgJson = <<>>
    /\ orgsDirectory = <<>>
    /\ scratchSection = <<>>
    /\ definitions = <<>>
    /\ orgRuns = <<>>
    /\ tableKind = "list"
    /\ tableLines = <<>>
    /\ tableResult = <<>>
    /\ tableDone = FALSE
    /\ jsonStdout = <<>>
    /\ jsonValue = JsonArray(<<>>)
    /\ jsonKey = <<>>
    /\ jsonRecords = <<>>
    /\ jsonRaised = FALSE
    /\ jsonDone = FALSE
    /\ presentKind = TaskKind
    /\ presentRecords = <<>>
    /\ treeItems = <<>>
    /\ treeDone = FALSE
    /\ fetchArgs = <<>>
    /\ fetchKey = <<>>
    /\ cliLog = <<>>
    /\ cliExits = <<>>
    /\ fetchPc = "returned"
    /\ fetchOut = NoFetch
    /\ viewKind = "tasks"
    /\ projectFolders = <<>>
    /\ rootItems = <<>>
    /\ rootDone = FALSE
    /\ svcPlain = Outcome("ok", <<>>)
    /\ svcMeta = MetaOutcome("ok", <<>>, undefined)
    /\ svcOut = NoGroups
    /\ svcDone = FALSE
    /\ infoExit = Outcome("ok", <<>>)
    /\ infoOut = NoInfo
    /\ infoDone = FALSE
    /\ statusText = LoadingText
    /\ expiryNotified = EmptyExpiryState
    /\ storeWrites = 0
    /\ defaultOrg = NoDefault
    /\ updates = <<>>
    /\ shown = <<>>
    /\ connectItem = NoItem
    /\ serviceGroups = [thrown |-> FALSE, groups |-> <<>>]
    /\ connectPc = "idle"
    /\ connectType = undefined
    /\ attributes = <<>>
    /\ trimmedName = <<>>
    /\ commandParts = <<>>
    /\ attributeIndex = 0
    /\ answers = <<>>
    /\ terminalText = <<>>

\* a listing of several records with directory and config definitions, or one
\* record carrying any combination of signals with at most its own definition
OrgInit ==
    /\ \/ /\ \E json \in OrgJsonInputs : orgShape = json[1] /\ orgJson = json[2]
          /\ orgsDirectory \in {d \in SeqsUpTo(OrgsDirectoryPool, MaxOrgFiles) : Distinct(d)}
          /\ scratchSection \in {c \in SeqsUpTo(ScratchSectionPool, MaxScratch) : Distinct(c)}
       \/ /\ \E json \in OrgSignalInputs : orgShape = json[1] /\ orgJson = json[2]
          /\ orgsDirectory \in {<<>>, <<DirEntry(dev, "yaml", TRUE)>>}
          /\ scratchSection = <<>>
    /\ definitions = <<>>
    /\ orgRuns = <<>>
    /\ dayInput = undefined
    /\ dayParsed = NoBreakdown
    /\ dayDisplay = undefined
    /\ dayPc = {}
    /\ section = "tasks"
    /\ records = <<>>
    /\ projectSection = <<>>
    /\ globalSection = <<>>
    /\ configDefinitions = <<>>
    /\ taskRuns = <<>>
    /\ tableKind = "list"
    /\ tableLines = <<>>
    /\ tableResult = <<>>
    /\ tableDone = FALSE
    /\ jsonStdout = <<>>
    /\ jsonValue = JsonArray(<<>>)
    /\ jsonKey = <<>>
    /\ jsonRecords = <<>>
    /\ jsonRaised = FALSE
    /\ jsonDone = FALSE
    /\ presentKind = TaskKind
    /\ presentRecords = <<>>
    /\ treeItems = <<>>
    /\ treeDone = FALSE
    /\ fetchArgs = <<>>
    /\ fetchKey = <<>>
    /\ cliLog = <<>>
    /\ cliExits = <<>>
    /\ fetchPc = "returned"
    /\ fetchOut = NoFetch
    /\ viewKind = "tasks"
    /\ projectFolders = <<>>
    /\ rootItems = <<>>
    /\ rootDone = FALSE
    /\ svcPlain = Outcome("ok", <<>>)
    /\ svcMeta = MetaOutcome("ok", <<>>, undefined)
    /\ svcOut = NoGroups
    /\ svcDone = FALSE
    /\ infoExit = Outcome("ok", <<>>)
    /\ infoOut = NoInfo
    /\ infoDone = FALSE
    /\ statusText = LoadingText
    /\ expiryNotified = EmptyExpiryState
    /\ storeWrites = 0
    /\ defaultOrg = NoDefault
    /\ updates = <<>>
    /\ shown = <<>>
    /\ connectItem = NoItem
    /\ serviceGroups = [thrown |-> FALSE, groups |-> <<>>]
    /\ connectPc = "idle"
    /\ connectType = undefined
    /\ attributes = <<>>
    /\ trimmedName = <<>>
    /\ commandParts = <<>>
    /\ attributeIndex = 0
    /\ answers = <<>>
    /\ terminalText = <<>>

ParseScratchDayCount ==
    /\ "parsed" \notin dayPc
    /\ dayParsed' = parseScratchDayCount(dayInput)
    /\ dayPc' = dayPc \cup {"parsed"}
    /\ UNCHANGED <<dayInput, dayDisplay>>
    /\ UNCHANGED <<taskVars, orgVars>>
    /\ UNCHANGED tableVars
    /\ UNCHANGED jsonVars
    /\ UNCHANGED presentVars
    /\ UNCHANGED fetchVars
    /\ UNCHANGED treeVars
    /\ UNCHANGED svcVars
    /\ UNCHANGED infoVars
    /\ UNCHANGED statusVars
    /\ UNCHANGED connectVars

FormatScratchDayDisplay ==
    /\ "shown" \notin dayPc
    /\ dayDisplay' = formatScratchDayDisplay(dayInput)
    /\ dayPc' = dayPc \cup {"shown"}
    /\ UNCHANGED <<dayInput, dayParsed>>
    /\ UNCHANGED <<taskVars, orgVars>>
    /\ UNCHANGED tableVars
    /\ UNCHANGED jsonVars
    /\ UNCHANGED presentVars
    /\ UNCHANGED fetchVars
    /\ UNCHANGED treeVars
    /\ UNCHANGED svcVars
    /\ UNCHANGED infoVars
    /\ UNCHANGED statusVars
    /\ UNCHANGED connectVars

\* listTasks / listFlows: one call of includeConfigDefinitions on the live
\* records and the config documents
IncludeConfigDefinitions ==
    /\ Len(taskRuns) < MaxRuns
    /\ \E out \in {includeConfigDefinitions(records, projectSection, globalSection, section)} :
          /\ taskRuns' = Append(taskRuns, out.enriched)
          /\ configDefinitions' = out.map
          /\ records' = out.caller
    /\ UNCHANGED <<section, projectSection, globalSection>>
    /\ UNCHANGED <<dayVars, orgVars>>
    /\ UNCHANGED tableVars
    /\ UNCHANGED jsonVars
    /\ UNCHANGED presentVars
    /\ UNCHANGED fetchVars
    /\ UNCHANGED treeVars
    /\ UNCHANGED svcVars
    /\ UNCHANGED infoVars
    /\ UNCHANGED statusVars
    /\ UNCHANGED connectVars

\* listOrgs / findDefaultOrg: one call of getOrgEntries on the JSON output of
\* `cci org list` and the folder's definitions
GetOrgEntries ==
    /\ Len(orgRuns) < MaxRuns
    /\ \E out \in {getOrgEntries(normalizeJsonRecords(OrgJsonValue(orgShape, orgJson), orgs),
                                  orgsDirectory, scratchSection)} :
          /\ orgRuns' = Append(orgRuns, out.entries)
          /\ definitions' = out.definitions
    /\ UNCHANGED <<orgShape, orgJson, orgsDirectory, scratchSection>>
    /\ UNCHANGED <<dayVars, taskVars>>
    /\ UNCHANGED tableVars
    /\ UNCHANGED jsonVars
    /\ UNCHANGED presentVars
    /\ UNCHANGED fetchVars
    /\ UNCHANGED treeVars
    /\ UNCHANGED svcVars
    /\ UNCHANGED infoVars
    /\ UNCHANGED statusVars
    /\ UNCHANGED connectVars

\* the output of one `cci service list --plain` or `cci service info` call
TableInit ==
    /\ \/ tableKind = "list" /\ tableLines \in SeqsUpTo(ListLinePool, MaxTableLines)
       \/ tableKind = "info" /\ tableLines \in SeqsUpTo(InfoLinePool, MaxTableLines)
    /\ tableResult = <<>>
    /\ tableDone = FALSE
    /\ dayInput = undefined
    /\ dayParsed = NoBreakdown
    /\ dayDisplay = undefined
    /\ dayPc = {}
    /\ section = "tasks"
    /\ records = <<>>
    /\ projectSection = <<>>
    /\ globalSection = <<>>
    /\ configDefinitions = <<>>
    /\ taskRuns = <<>>
    /\ orgShape = "array"
    /\ orgJson = <<>>
    /\ orgsDirectory = <<>>
    /\ scratchSection = <<>>
    /\ definitions = <<>>
    /\ orgRuns = <<>>
    /\ jsonStdout = <<>>
    /\ jsonValue = JsonArray(<<>>)
    /\ jsonKey = <<>>
    /\ jsonRecords = <<>>
    /\ jsonRaised = FALSE
    /\ jsonDone = FALSE
    /\ presentKind = TaskKind
    /\ presentRecords = <<>>
    /\ treeItems = <<>>
    /\ treeDone = FALSE
    /\ fetchArgs = <<>>
    /\ fetchKey = <<>>
    /\ cliLog = <<>>
    /\ cliExits = <<>>
    /\ fetchPc = "returned"
    /\ fetchOut = NoFetch
    /\ viewKind = "tasks"
    /\ projectFolders = <<>>
    /\ rootItems = <<>>
    /\ rootDone = FALSE
    /\ svcPlain = Outcome("ok", <<>>)
    /\ svcMeta = MetaOutcome("ok", <<>>, undefined)
    /\ svcOut = NoGroups
    /\ svcDone = FALSE
    /\ infoExit = Outcome("ok", <<>>)
    /\ infoOut = NoInfo
    /\ infoDone = FALSE
    /\ statusText = LoadingText
    /\ expiryNotified = EmptyExpiryState
    /\ storeWrites = 0
    /\ defaultOrg = NoDefault
    /\ updates = <<>>
    /\ shown = <<>>
    /\ connectItem = NoItem
    /\ serviceGroups = [thrown |-> FALSE, groups |-> <<>>]
    /\ connectPc = "idle"
    /\ connectType = undefined
    /\ attributes = <<>>
    /\ trimmedName = <<>>
    /\ commandParts = <<>>
    /\ attributeIndex = 0
    /\ answers = <<>>
    /\ terminalText = <<>>

\* getServiceTypeGroups: the table of `cci service list --plain` is parsed
ParseServiceListOutput ==
    /\ tableKind = "list"
    /\ ~tableDone
    /\ tableResult' = parseServiceListOutput(tableLines)
    /\ tableDone' = TRUE
    /\ UNCHANGED <<tableKind, tableLines>>
    /\ UNCHANGED <<dayVars, taskVars, orgVars>>
    /\ UNCHANGED jsonVars
    /\ UNCHANGED presentVars
    /\ UNCHANGED fetchVars
    /\ UNCHANGED treeVars
    /\ UNCHANGED svcVars
    /\ UNCHANGED infoVars
    /\ UNCHANGED statusVars
    /\ UNCHANGED connectVars

\* getServiceInfo: the table of `cci service info` is parsed
ParseServiceInfoOutput ==
    /\ tableKind = "info"
    /\ ~tableDone
    /\ tableResult' = parseServiceInfoOutput(tableLines)
    /\ tableDone' = TRUE
    /\ UNCHANGED <<tableKind, tableLines>>
    /\ UNCHANGED <<dayVars, taskVars, orgVars>>
    /\ UNCHANGED jsonVars
    /\ UNCHANGED presentVars
    /\ UNCHANGED fetchVars
    /\ UNCHANGED treeVars
    /\ UNCHANGED svcVars
    /\ UNCHANGED infoVars
    /\ UNCHANGED statusVars
    /\ UNCHANGED connectVars

\* stdout of a JSON listing: optional log text, the JSON document (whole, or
\* cut short, or followed by more text)
JsonInit ==
    /\ jsonValue \in JsonValues
    /\ jsonKey \in {orgs, qa}
    /\ \E banner \in JsonBanners, tail \in {"none", "cut", "text"} :
          jsonStdout = banner \o (IF tail = "cut"
                                  THEN SubSeq(Stringify(jsonValue), 1,
                                              Len(Stringify(jsonValue)) - 1)
                                  ELSE IF tail = "text" THEN Stringify(jsonValue) \o <<" ", "o", "k">>
                                  ELSE Stringify(jsonValue) \o <<" ">>)
    /\ jsonRecords = <<>>
    /\ jsonRaised = FALSE
    /\ jsonDone = FALSE
    /\ dayInput = undefined
    /\ dayParsed = NoBreakdown
    /\ dayDisplay = undefined
    /\ dayPc = {}
    /\ section = "tasks"
    /\ records = <<>>
    /\ projectSection = <<>>
    /\ globalSection = <<>>
    /\ configDefinitions = <<>>
    /\ taskRuns = <<>>
    /\ orgShape = "array"
    /\ orgJson = <<>>
    /\ orgsDirectory = <<>>
    /\ scratchSection = <<>>
    /\ definitions = <<>>
    /\ orgRuns = <<>>
    /\ tableKind = "list"
    /\ tableLines = <<>>
    /\ tableResult = <<>>
    /\ tableDone = FALSE
    /\ presentKind = TaskKind
    /\ presentRecords = <<>>
    /\ treeItems = <<>>
    /\ treeDone = FALSE
    /\ fetchArgs = <<>>
    /\ fetchKey = <<>>
    /\ cliLog = <<>>
    /\ cliExits = <<>>
    /\ fetchPc = "returned"
    /\ fetchOut = NoFetch
    /\ viewKind = "tasks"
    /\ projectFolders = <<>>
    /\ rootItems = <<>>
    /\ rootDone = FALSE
    /\ svcPlain = Outcome("ok", <<>>)
    /\ svcMeta = MetaOutcome("ok", <<>>, undefined)
    /\ svcOut = NoGroups
    /\ svcDone = FALSE
    /\ infoExit = Outcome("ok", <<>>)
    /\ infoOut = NoInfo
    /\ infoDone = FALSE
    /\ statusText = LoadingText
    /\ expiryNotified = EmptyExpiryState
    /\ storeWrites = 0
    /\ defaultOrg = NoDefault
    /\ updates = <<>>
    /\ shown = <<>>
    /\ connectItem = NoItem
    /\ serviceGroups = [thrown |-> FALSE, groups |-> <<>>]
    /\ connectPc = "idle"
    /\ connectType = undefined
    /\ attributes = <<>>
    /\ trimmedName = <<>>
    /\ commandParts = <<>>
    /\ attributeIndex = 0
    /\ answers = <<>>
    /\ terminalText = <<>>

\* fetchRecords: the stdout of the --json call is handed to parseJsonRecords
ParseJsonRecords ==
    /\ ~jsonDone
    /\ \E out \in {parseJsonRecords(jsonStdout, jsonKey)} :
          /\ jsonRecords' = out.records
          /\ jsonRaised' = out.raised
    /\ jsonDone' = TRUE
    /\ UNCHANGED <<jsonStdout, jsonValue, jsonKey>>
    /\ UNCHANGED <<dayVars, taskVars, orgVars, tableVars>>
    /\ UNCHANGED presentVars
    /\ UNCHANGED fetchVars
    /\ UNCHANGED treeVars
    /\ UNCHANGED svcVars
    /\ UNCHANGED infoVars
    /\ UNCHANGED statusVars
    /\ UNCHANGED connectVars

PresentInit ==
    /\ presentKind \in {TaskKind, FlowKind}
    /\ presentRecords \in SeqsUpTo(PresentPool, MaxPresent)
    /\ treeItems = <<>>
    /\ treeDone = FALSE
    /\ section = "tasks"
    /\ records = <<>>
    /\ projectSection = <<>>
    /\ globalSection = <<>>
    /\ configDefinitions = <<>>
    /\ taskRuns = <<>>
    /\ dayInput = undefined
    /\ dayParsed = NoBreakdown
    /\ dayDisplay = undefined
    /\ dayPc = {}
    /\ orgShape = "array"
    /\ orgJson = <<>>
    /\ orgsDirectory = <<>>
    /\ scratchSection = <<>>
    /\ definitions = <<>>
    /\ orgRuns = <<>>
    /\ tableKind = "list"
    /\ tableLines = <<>>
    /\ tableResult = <<>>
    /\ tableDone = FALSE
    /\ jsonStdout = <<>>
    /\ jsonValue = JsonArray(<<>>)
    /\ jsonKey = <<>>
    /\ jsonRecords = <<>>
    /\ jsonRaised = FALSE
    /\ jsonDone = FALSE
    /\ fetchArgs = <<>>
    /\ fetchKey = <<>>
    /\ cliLog = <<>>
    /\ cliExits = <<>>
    /\ fetchPc = "returned"
    /\ fetchOut = NoFetch
    /\ viewKind = "tasks"
    /\ projectFolders = <<>>
    /\ rootItems = <<>>
    /\ rootDone = FALSE
    /\ svcPlain = Outcome("ok", <<>>)
    /\ svcMeta = MetaOutcome("ok", <<>>, undefined)
    /\ svcOut = NoGroups
    /\ svcDone = FALSE
    /\ infoExit = Outcome("ok", <<>>)
    /\ infoOut = NoInfo
    /\ infoDone = FALSE
    /\ statusText = LoadingText
    /\ expiryNotified = EmptyExpiryState
    /\ storeWrites = 0
    /\ defaultOrg = NoDefault
    /\ updates = <<>>
    /\ shown = <<>>
    /\ connectItem = NoItem
    /\ serviceGroups = [thrown |-> FALSE, groups |-> <<>>]
    /\ connectPc = "idle"
    /\ connectType = undefined
    /\ attributes = <<>>
    /\ trimmedName = <<>>
    /\ commandParts = <<>>
    /\ attributeIndex = 0
    /\ answers = <<>>
    /\ terminalText = <<>>

\* listTasks / listFlows hand the reconciled records to buildGroupedItems
BuildGroupedItems ==
    /\ ~treeDone
    /\ treeItems' = buildGroupedItems(presentRecords,
                        IF presentKind = TaskKind THEN taskLabelKeys ELSE flowLabelKeys,
                        presentKind)
    /\ treeDone' = TRUE
    /\ UNCHANGED <<presentKind, presentRecords>>
    /\ UNCHANGED <<dayVars, taskVars, orgVars, tableVars, jsonVars>>
    /\ UNCHANGED fetchVars
    /\ UNCHANGED treeVars
    /\ UNCHANGED svcVars
    /\ UNCHANGED infoVars
    /\ UNCHANGED statusVars
    /\ UNCHANGED connectVars

FetchInit ==
    /\ \E listing \in ListingPool :
          /\ fetchArgs = listing[1]
          /\ fetchKey = listing[2]
    /\ cliLog = <<>>
    /\ cliExits = <<>>
    /\ fetchPc = "start"
    /\ fetchOut = NoFetch
    /\ presentKind = TaskKind
    /\ presentRecords = <<>>
    /\ treeItems = <<>>
    /\ treeDone = FALSE
    /\ section = "tasks"
    /\ records = <<>>
    /\ projectSection = <<>>
    /\ globalSection = <<>>
    /\ configDefinitions = <<>>
    /\ taskRuns = <<>>
    /\ dayInput = undefined
    /\ dayParsed = NoBreakdown
    /\ dayDisplay = undefined
    /\ dayPc = {}
    /\ orgShape = "array"
    /\ orgJson = <<>>
    /\ orgsDirectory = <<>>
    /\ scratchSection = <<>>
    /\ definitions = <<>>
    /\ orgRuns = <<>>
    /\ tableKind = "list"
    /\ tableLines = <<>>
    /\ tableResult = <<>>
    /\ tableDone = FALSE
    /\ jsonStdout = <<>>
    /\ jsonValue = JsonArray(<<>>)
    /\ jsonKey = <<>>
    /\ jsonRecords = <<>>
    /\ jsonRaised = FALSE
    /\ jsonDone = FALSE
    /\ viewKind = "tasks"
    /\ projectFolders = <<>>
    /\ rootItems = <<>>
    /\ rootDone = FALSE
    /\ svcPlain = Outcome("ok", <<>>)
    /\ svcMeta = MetaOutcome("ok", <<>>, undefined)
    /\ svcOut = NoGroups
    /\ svcDone = FALSE
    /\ infoExit = Outcome("ok", <<>>)
    /\ infoOut = NoInfo
    /\ infoDone = FALSE
    /\ statusText = LoadingText
    /\ expiryNotified = EmptyExpiryState
    /\ storeWrites = 0
    /\ defaultOrg = NoDefault
    /\ updates = <<>>
    /\ shown = <<>>
    /\ connectItem = NoItem
    /\ serviceGroups = [thrown |-> FALSE, groups |-> <<>>]
    /\ connectPc = "idle"
    /\ connectType = undefined
    /\ attributes = <<>>
    /\ trimmedName = <<>>
    /\ commandParts = <<>>
    /\ attributeIndex = 0
    /\ answers = <<>>
    /\ terminalText = <<>>

\* fetchRecords is called: the first child process is spawned
FetchRecords ==
    /\ fetchPc = "start"
    /\ cliLog' = Append(cliLog, Append(fetchArgs, JsonFlag))
    /\ fetchPc' = "awaitJson"
    /\ UNCHANGED <<fetchArgs, fetchKey, cliExits, fetchOut>>
    /\ UNCHANGED <<dayVars, taskVars, orgVars, tableVars, jsonVars, presentVars>>
    /\ UNCHANGED treeVars
    /\ UNCHANGED svcVars
    /\ UNCHANGED infoVars
    /\ UNCHANGED statusVars
    /\ UNCHANGED connectVars

\* the running child process exits (execFileAsync settles)
CliExit ==
    /\ fetchPc \in {"awaitJson", "awaitText"}
    /\ Len(cliExits) < Len(cliLog)
    /\ \E outcome \in (IF fetchPc = "awaitJson" THEN JsonCallOutcomes ELSE TextCallOutcomes) :
          cliExits' = Append(cliExits, outcome)
    /\ UNCHANGED <<fetchArgs, fetchKey, cliLog, fetchPc, fetchOut>>
    /\ UNCHANGED <<dayVars, taskVars, orgVars, tableVars, jsonVars, presentVars>>
    /\ UNCHANGED treeVars
    /\ UNCHANGED svcVars
    /\ UNCHANGED infoVars
    /\ UNCHANGED statusVars
    /\ UNCHANGED connectVars

\* fetchRecords resumes after the --json call: return the JSON records, throw,
\* or spawn the call without the flag
FetchAfterJson ==
    /\ fetchPc = "awaitJson"
    /\ Len(cliExits) = 1
    /\ LET outcome == cliExits[1]
           parsed == parseJsonRecords(outcome.text, fetchKey).records
       IN IF outcome.kind = "ok" /\ Len(parsed) > 0
          THEN /\ fetchOut' = [format |-> "json", records |-> parsed, error |-> undefined]
               /\ fetchPc' = "returned"
               /\ UNCHANGED cliLog
          ELSE IF outcome.kind # "ok" /\ ~didFailDueToJsonFlag(CommandError(outcome))
          THEN /\ fetchOut' = [format |-> "none", records |-> <<>>,
                               error |-> CommandError(outcome)]
               /\ fetchPc' = "thrown"
               /\ UNCHANGED cliLog
          ELSE /\ cliLog' = Append(cliLog, fetchArgs)
               /\ fetchPc' = "awaitText"
               /\ UNCHANGED fetchOut
    /\ UNCHANGED <<fetchArgs, fetchKey, cliExits>>
    /\ UNCHANGED <<dayVars, taskVars, orgVars, tableVars, jsonVars, presentVars>>
    /\ UNCHANGED treeVars
    /\ UNCHANGED svcVars
    /\ UNCHANGED infoVars
    /\ UNCHANGED statusVars
    /\ UNCHANGED connectVars

\* fetchRecords resumes after the call without the flag
FetchAfterText ==
    /\ fetchPc = "awaitText"
    /\ Len(cliExits) = 2
    /\ LET outcome == cliExits[2]
       IN IF outcome.kind = "ok"
          THEN /\ fetchOut' = [format |-> "text", records |-> parseTextRecords(outcome.text),
                               error |-> undefined]
               /\ fetchPc' = "returned"
          ELSE /\ fetchOut' = [format |-> "none", records |-> <<>>,
                               error |-> CommandError(outcome)]
               /\ fetchPc' = "thrown"
    /\ UNCHANGED <<fetchArgs, fetchKey, cliLog, cliExits>>
    /\ UNCHANGED <<dayVars, taskVars, orgVars, tableVars, jsonVars, presentVars>>
    /\ UNCHANGED treeVars
    /\ UNCHANGED svcVars
    /\ UNCHANGED infoVars
    /\ UNCHANGED statusVars
    /\ UNCHANGED connectVars

ListingInit ==
    /\ section \in {"tasks", "flows"}
    /\ records \in SeqsUpTo(LivePool, MaxLive)
    /\ projectSection \in {e \in SeqsUpTo(ProjectPool, MaxProject) : DistinctNames(e)}
    /\ globalSection \in {e \in SeqsUpTo(GlobalPool, MaxGlobal) : DistinctNames(e)}
    /\ configDefinitions = <<>>
    /\ taskRuns = <<>>
    /\ presentKind = IF section = "tasks" THEN TaskKind ELSE FlowKind
    /\ presentRecords = <<>>
    /\ treeItems = <<>>
    /\ treeDone = FALSE
    /\ fetchArgs = <<>>
    /\ fetchKey = <<>>
    /\ cliLog = <<>>
    /\ cliExits = <<>>
    /\ fetchPc = "returned"
    /\ fetchOut = NoFetch
    /\ dayInput = undefined
    /\ dayParsed = NoBreakdown
    /\ dayDisplay = undefined
    /\ dayPc = {}
    /\ orgShape = "array"
    /\ orgJson = <<>>
    /\ orgsDirectory = <<>>
    /\ scratchSection = <<>>
    /\ definitions = <<>>
    /\ orgRuns = <<>>
    /\ tableKind = "list"
    /\ tableLines = <<>>
    /\ tableResult = <<>>
    /\ tableDone = FALSE
    /\ jsonStdout = <<>>
    /\ jsonValue = JsonArray(<<>>)
    /\ jsonKey = <<>>
    /\ jsonRecords = <<>>
    /\ jsonRaised = FALSE
    /\ jsonDone = FALSE
    /\ viewKind = "tasks"
    /\ projectFolders = <<>>
    /\ rootItems = <<>>
    /\ rootDone = FALSE
    /\ svcPlain = Outcome("ok", <<>>)
    /\ svcMeta = MetaOutcome("ok", <<>>, undefined)
    /\ svcOut = NoGroups
    /\ svcDone = FALSE
    /\ infoExit = Outcome("ok", <<>>)
    /\ infoOut = NoInfo
    /\ infoDone = FALSE
    /\ statusText = LoadingText
    /\ expiryNotified = EmptyExpiryState
    /\ storeWrites = 0
    /\ defaultOrg = NoDefault
    /\ updates = <<>>
    /\ shown = <<>>
    /\ connectItem = NoItem
    /\ serviceGroups = [thrown |-> FALSE, groups |-> <<>>]
    /\ connectPc = "idle"
    /\ connectType = undefined
    /\ attributes = <<>>
    /\ trimmedName = <<>>
    /\ commandParts = <<>>
    /\ attributeIndex = 0
    /\ answers = <<>>
    /\ terminalText = <<>>

\* listTasks / listFlows after fetchRecords has returned `records`:
\* includeConfigDefinitions, then buildGroupedItems
ListTasks ==
    /\ ~treeDone
    /\ \E out \in {includeConfigDefinitions(records, projectSection, globalSection, section)} :
          /\ taskRuns' = Append(taskRuns, out.enriched)
          /\ configDefinitions' = out.map
          /\ records' = out.caller
          /\ presentRecords' = out.enriched
          /\ treeItems' = buildGroupedItems(out.enriched, LabelKeys(section), presentKind)
    /\ treeDone' = TRUE
    /\ UNCHANGED <<section, projectSection, globalSection, presentKind>>
    /\ UNCHANGED <<dayVars, orgVars, tableVars, jsonVars, fetchVars>>
    /\ UNCHANGED treeVars
    /\ UNCHANGED svcVars
    /\ UNCHANGED infoVars
    /\ UNCHANGED statusVars
    /\ UNCHANGED connectVars

TreeInit ==
    /\ viewKind \in ViewKinds
    /\ projectFolders \in {f \in SeqsUpTo(FolderPool, MaxFolders) :
                             \A i, j \in 1..Len(f) : f[i].name = f[j].name => i = j}
    /\ rootItems = <<>>
    /\ rootDone = FALSE
    /\ presentKind = TaskKind
    /\ presentRecords = <<>>
    /\ treeItems = <<>>
    /\ treeDone = FALSE
    /\ fetchArgs = <<>>
    /\ fetchKey = <<>>
    /\ cliLog = <<>>
    /\ cliExits = <<>>
    /\ fetchPc = "returned"
    /\ fetchOut = NoFetch
    /\ section = "tasks"
    /\ records = <<>>
    /\ projectSection = <<>>
    /\ globalSection = <<>>
    /\ configDefinitions = <<>>
    /\ taskRuns = <<>>
    /\ dayInput = undefined
    /\ dayParsed = NoBreakdown
    /\ dayDisplay = undefined
    /\ dayPc = {}
    /\ orgShape = "array"
    /\ orgJson = <<>>
    /\ orgsDirectory = <<>>
    /\ scratchSection = <<>>
    /\ definitions = <<>>
    /\ orgRuns = <<>>
    /\ tableKind = "list"
    /\ tableLines = <<>>
    /\ tableResult = <<>>
    /\ tableDone = FALSE
    /\ jsonStdout = <<>>
    /\ jsonValue = JsonArray(<<>>)
    /\ jsonKey = <<>>
    /\ jsonRecords = <<>>
    /\ jsonRaised = FALSE
    /\ jsonDone = FALSE
    /\ svcPlain = Outcome("ok", <<>>)
    /\ svcMeta = MetaOutcome("ok", <<>>, undefined)
    /\ svcOut = NoGroups
    /\ svcDone = FALSE
    /\ infoExit = Outcome("ok", <<>>)
    /\ infoOut = NoInfo
    /\ infoDone = FALSE
    /\ statusText = LoadingText
    /\ expiryNotified = EmptyExpiryState
    /\ storeWrites = 0
    /\ defaultOrg = NoDefault
    /\ updates = <<>>
    /\ shown = <<>>
    /\ connectItem = NoItem
    /\ serviceGroups = [thrown |-> FALSE, groups |-> <<>>]
    /\ connectPc = "idle"
    /\ connectType = undefined
    /\ attributes = <<>>
    /\ trimmedName = <<>>
    /\ commandParts = <<>>
    /\ attributeIndex = 0
    /\ answers = <<>>
    /\ terminalText = <<>>

\* the view asks for its root elements: getChildren(undefined)
GetChildren ==
    /\ ~rootDone
    /\ rootItems' = getChildren(viewKind, projectFolders)
    /\ rootDone' = TRUE
    /\ UNCHANGED <<viewKind, projectFolders>>
    /\ UNCHANGED <<dayVars, taskVars, orgVars, tableVars, jsonVars, presentVars, fetchVars>>
    /\ UNCHANGED svcVars
    /\ UNCHANGED infoVars
    /\ UNCHANGED statusVars
    /\ UNCHANGED connectVars

ServiceInit ==
    /\ svcPlain \in PlainOutcomes
    /\ svcMeta \in MetaOutcomes
    /\ svcOut = NoGroups
    /\ svcDone = FALSE
    /\ viewKind = "tasks"
    /\ projectFolders = <<>>
    /\ rootItems = <<>>
    /\ rootDone = FALSE
    /\ presentKind = TaskKind
    /\ presentRecords = <<>>
    /\ treeItems = <<>>
    /\ treeDone = FALSE
    /\ fetchArgs = <<>>
    /\ fetchKey = <<>>
    /\ cliLog = <<>>
    /\ cliExits = <<>>
    /\ fetchPc = "returned"
    /\ fetchOut = NoFetch
    /\ section = "tasks"
    /\ records = <<>>
    /\ projectSection = <<>>
    /\ globalSection = <<>>
    /\ configDefinitions = <<>>
    /\ taskRuns = <<>>
    /\ dayInput = undefined
    /\ dayParsed = NoBreakdown
    /\ dayDisplay = undefined
    /\ dayPc = {}
    /\ orgShape = "array"
    /\ orgJson = <<>>
    /\ orgsDirectory = <<>>
    /\ scratchSection = <<>>
    /\ definitions = <<>>
    /\ orgRuns = <<>>
    /\ tableKind = "list"
    /\ tableLines = <<>>
    /\ tableResult = <<>>
    /\ tableDone = FALSE
    /\ jsonStdout = <<>>
    /\ jsonValue = JsonArray(<<>>)
    /\ jsonKey = <<>>
    /\ jsonRecords = <<>>
    /\ jsonRaised = FALSE
    /\ jsonDone = FALSE
    /\ infoExit = Outcome("ok", <<>>)
    /\ infoOut = NoInfo
    /\ infoDone = FALSE
    /\ statusText = LoadingText
    /\ expiryNotified = EmptyExpiryState
    /\ storeWrites = 0
    /\ defaultOrg = NoDefault
    /\ updates = <<>>
    /\ shown = <<>>
    /\ connectItem = NoItem
    /\ serviceGroups = [thrown |-> FALSE, groups |-> <<>>]
    /\ connectPc = "idle"
    /\ connectType = undefined
    /\ attributes = <<>>
    /\ trimmedName = <<>>
    /\ commandParts = <<>>
    /\ attributeIndex = 0
    /\ answers = <<>>
    /\ terminalText = <<>>

\* listServices asks for the service groups of a folder
GetServiceTypeGroups ==
    /\ ~svcDone
    /\ svcOut' = getServiceTypeGroups(svcPlain, svcMeta)
    /\ svcDone' = TRUE
    /\ UNCHANGED <<svcPlain, svcMeta>>
    /\ UNCHANGED <<dayVars, taskVars, orgVars, tableVars, jsonVars, presentVars, fetchVars>>
    /\ UNCHANGED treeVars
    /\ UNCHANGED infoVars
    /\ UNCHANGED statusVars
    /\ UNCHANGED connectVars

OrgInfoInit ==
    /\ infoExit \in InfoOutcomes
    /\ infoOut = NoInfo
    /\ infoDone = FALSE
    /\ section = "tasks"
    /\ records = <<>>
    /\ projectSection = <<>>
    /\ globalSection = <<>>
    /\ configDefinitions = <<>>
    /\ taskRuns = <<>>
    /\ dayInput = undefined
    /\ dayParsed = NoBreakdown
    /\ dayDisplay = undefined
    /\ dayPc = {}
    /\ orgShape = "array"
    /\ orgJson = <<>>
    /\ orgsDirectory = <<>>
    /\ scratchSection = <<>>
    /\ definitions = <<>>
    /\ orgRuns = <<>>
    /\ tableKind = "list"
    /\ tableLines = <<>>
    /\ tableResult = <<>>
    /\ tableDone = FALSE
    /\ jsonStdout = <<>>
    /\ jsonValue = JsonArray(<<>>)
    /\ jsonKey = <<>>
    /\ jsonRecords = <<>>
    /\ jsonRaised = FALSE
    /\ jsonDone = FALSE
    /\ fetchArgs = <<>>
    /\ fetchKey = <<>>
    /\ cliLog = <<>>
    /\ cliExits = <<>>
    /\ fetchPc = "returned"
    /\ fetchOut = NoFetch
    /\ presentKind = TaskKind
    /\ presentRecords = <<>>
    /\ treeItems = <<>>
    /\ treeDone = FALSE
    /\ svcPlain = Outcome("ok", <<>>)
    /\ svcMeta = MetaOutcome("ok", <<>>, undefined)
    /\ svcOut = NoGroups
    /\ svcDone = FALSE
    /\ viewKind = "tasks"
    /\ projectFolders = <<>>
    /\ rootItems = <<>>
    /\ rootDone = FALSE
    /\ statusText = LoadingText
    /\ expiryNotified = EmptyExpiryState
    /\ storeWrites = 0
    /\ defaultOrg = NoDefault
    /\ updates = <<>>
    /\ shown = <<>>
    /\ connectItem = NoItem
    /\ serviceGroups = [thrown |-> FALSE, groups |-> <<>>]
    /\ connectPc = "idle"
    /\ connectType = undefined
    /\ attributes = <<>>
    /\ trimmedName = <<>>
    /\ commandParts = <<>>
    /\ attributeIndex = 0
    /\ answers = <<>>
    /\ terminalText = <<>>

\* showOrgInfoDocument asks for the detail of an org
GetOrgInfo ==
    /\ ~infoDone
    /\ infoOut' = getOrgInfo(infoExit)
    /\ infoDone' = TRUE
    /\ UNCHANGED infoExit
    /\ UNCHANGED <<dayVars, taskVars, orgVars, tableVars, jsonVars, presentVars, fetchVars>>
    /\ UNCHANGED <<treeVars, svcVars>>
    /\ UNCHANGED statusVars
    /\ UNCHANGED connectVars

StatusInit ==
    /\ statusText = LoadingText
    /\ expiryNotified = EmptyExpiryState
    /\ storeWrites = 0
    /\ defaultOrg \in DefaultOrgPool
    /\ updates = <<>>
    /\ shown = <<>>
    /\ section = "tasks"
    /\ records = <<>>
    /\ projectSection = <<>>
    /\ globalSection = <<>>
    /\ configDefinitions = <<>>
    /\ taskRuns = <<>>
    /\ dayInput = undefined
    /\ dayParsed = NoBreakdown
    /\ dayDisplay = undefined
    /\ dayPc = {}
    /\ orgShape = "array"
    /\ orgJson = <<>>
    /\ orgsDirectory = <<>>
    /\ scratchSection = <<>>
    /\ definitions = <<>>
    /\ orgRuns = <<>>
    /\ tableKind = "list"
    /\ tableLines = <<>>
    /\ tableResult = <<>>
    /\ tableDone = FALSE
    /\ jsonStdout = <<>>
    /\ jsonValue = JsonArray(<<>>)
    /\ jsonKey = <<>>
    /\ jsonRecords = <<>>
    /\ jsonRaised = FALSE
    /\ jsonDone = FALSE
    /\ fetchArgs = <<>>
    /\ fetchKey = <<>>
    /\ cliLog = <<>>
    /\ cliExits = <<>>
    /\ fetchPc = "returned"
    /\ fetchOut = NoFetch
    /\ infoExit = Outcome("ok", <<>>)
    /\ infoOut = NoInfo
    /\ infoDone = FALSE
    /\ presentKind = TaskKind
    /\ presentRecords = <<>>
    /\ treeItems = <<>>
    /\ treeDone = FALSE
    /\ svcPlain = Outcome("ok", <<>>)
    /\ svcMeta = MetaOutcome("ok", <<>>, undefined)
    /\ svcOut = NoGroups
    /\ svcDone = FALSE
    /\ viewKind = "tasks"
    /\ projectFolders = <<>>
    /\ rootItems = <<>>
    /\ rootDone = FALSE
    /\ connectItem = NoItem
    /\ serviceGroups = [thrown |-> FALSE, groups |-> <<>>]
    /\ connectPc = "idle"
    /\ connectType = undefined
    /\ attributes = <<>>
    /\ trimmedName = <<>>
    /\ commandParts = <<>>
    /\ attributeIndex = 0
    /\ answers = <<>>
    /\ terminalText = <<>>

\* activation and refresh('orgs'): `void updateDefaultOrgStatus()`
UpdateDefaultOrgStatus ==
    /\ Len(updates) < MaxUpdates
    /\ updates' =
         Append([i \in 1..Len(updates) |->
                    IF InFlight(updates[i]) THEN [updates[i] EXCEPT !.overlapped = TRUE]
                    ELSE updates[i]],
                NewUpdate(\E i \in 1..Len(updates) : InFlight(updates[i])))
    /\ UNCHANGED <<statusText, expiryNotified, storeWrites, defaultOrg, shown>>
    /\ UNCHANGED <<dayVars, taskVars, orgVars, tableVars, jsonVars, presentVars, fetchVars>>
    /\ UNCHANGED <<treeVars, svcVars, infoVars>>
    /\ UNCHANGED connectVars

\* `await service.findDefaultOrg()` settles and the call runs on to its next
\* await or to its end
FindDefaultOrgSettles ==
    /\ \E i \in 1..Len(updates), rejected \in BOOLEAN :
        /\ updates[i].pc = "findDefaultOrg"
        /\ IF rejected
           THEN /\ statusText' = UnavailableText
                /\ updates' = [updates EXCEPT ![i] = Finished(@, NoDefault, UnavailableText)]
                /\ UNCHANGED <<expiryNotified, storeWrites, shown>>
           ELSE IF defaultOrg = NoDefault
           THEN /\ statusText' = NoDefaultText
                /\ expiryNotified' = EmptyExpiryState
                /\ storeWrites' = IF expiryNotified # EmptyExpiryState
                                  THEN storeWrites + 1 ELSE storeWrites
                /\ updates' = [updates EXCEPT ![i] = Finished(@, NoDefault, NoDefaultText)]
                /\ UNCHANGED shown
           ELSE LET text == DefaultText(defaultOrg.alias)
                    check == handleExpiryNotification(expiryNotified, defaultOrg)
                IN /\ statusText' = text
                   /\ IF check.shown = "none"
                      THEN /\ expiryNotified' = check.expiryState
                           /\ storeWrites' = IF check.expiryState # expiryNotified
                                             THEN storeWrites + 1 ELSE storeWrites
                           /\ updates' = [updates EXCEPT ![i] = Finished(@, defaultOrg, text)]
                           /\ UNCHANGED shown
                      ELSE /\ updates' = [updates EXCEPT ![i] =
                                 [@ EXCEPT !.pc = "notification", !.info = defaultOrg,
                                           !.expiryState = check.expiryState,
                                           !.readAt = storeWrites, !.wrote = text]]
                           /\ shown' = Append(shown, [alias |-> defaultOrg.alias,
                                                      kind |-> check.shown, by |-> i])
                           /\ UNCHANGED <<expiryNotified, storeWrites>>
    /\ UNCHANGED defaultOrg
    /\ UNCHANGED <<dayVars, taskVars, orgVars, tableVars, jsonVars, presentVars, fetchVars>>
    /\ UNCHANGED <<treeVars, svcVars, infoVars>>
    /\ UNCHANGED connectVars

\* the user answers the notification: dismisses it or picks one of its buttons
NotificationAnswered ==
    /\ \E i \in 1..Len(updates), choice \in {"dismissed", "Open Org Info", "Change Default"} :
        /\ updates[i].pc = "notification"
        /\ IF choice = "dismissed"
           THEN /\ expiryNotified' = updates[i].expiryState
                /\ storeWrites' = storeWrites + 1
                /\ updates' = [updates EXCEPT ![i] = Finished(@, @.info, @.wrote)]
           ELSE /\ updates' = [updates EXCEPT ![i].pc = "followUp"]
                /\ UNCHANGED <<expiryNotified, storeWrites>>
    /\ UNCHANGED <<statusText, defaultOrg, shown>>
    /\ UNCHANGED <<dayVars, taskVars, orgVars, tableVars, jsonVars, presentVars, fetchVars>>
    /\ UNCHANGED <<treeVars, svcVars, infoVars>>
    /\ UNCHANGED connectVars

\* showOrgInfoDocument or the cumulusci.status.showDefaultOrg command settles:
\* on success the cache is written back, on failure the catch block of
\* updateDefaultOrgStatus runs
FollowUpSettles ==
    /\ \E i \in 1..Len(updates), rejected \in BOOLEAN :
        /\ updates[i].pc = "followUp"
        /\ IF rejected
           THEN /\ statusText' = UnavailableText
                /\ updates' = [updates EXCEPT ![i] = Finished(@, @.info, UnavailableText)]
                /\ UNCHANGED <<expiryNotified, storeWrites>>
           ELSE /\ expiryNotified' = updates[i].expiryState
                /\ storeWrites' = storeWrites + 1
                /\ updates' = [updates EXCEPT ![i] = Finished(@, @.info, @.wrote)]
                /\ UNCHANGED statusText
    /\ UNCHANGED <<defaultOrg, shown>>
    /\ UNCHANGED <<dayVars, taskVars, orgVars, tableVars, jsonVars, presentVars, fetchVars>>
    /\ UNCHANGED <<treeVars, svcVars, infoVars>>
    /\ UNCHANGED connectVars

\* `cci org default` sets or clears the default org, or the org ages
SetDefaultOrg ==
    /\ \E org \in DefaultOrgPool \ {defaultOrg} : defaultOrg' = org
    /\ UNCHANGED <<statusText, expiryNotified, storeWrites, updates, shown>>
    /\ UNCHANGED <<dayVars, taskVars, orgVars, tableVars, jsonVars, presentVars, fetchVars>>
    /\ UNCHANGED <<treeVars, svcVars, infoVars>>
    /\ UNCHANGED connectVars

ConnectInit ==
    /\ connectItem \in ConnectItems
    /\ serviceGroups \in ServiceGroupResults
    /\ connectPc = "idle"
    /\ connectType = undefined
    /\ attributes = <<>>
    /\ trimmedName = <<>>
    /\ commandParts = <<>>
    /\ attributeIndex = 0
    /\ answers = <<>>
    /\ terminalText = <<>>
    /\ section = "tasks"
    /\ records = <<>>
    /\ projectSection = <<>>
    /\ globalSection = <<>>
    /\ configDefinitions = <<>>
    /\ taskRuns = <<>>
    /\ dayInput = undefined
    /\ dayParsed = NoBreakdown
    /\ dayDisplay = undefined
    /\ dayPc = {}
    /\ orgShape = "array"
    /\ orgJson = <<>>
    /\ orgsDirectory = <<>>
    /\ scratchSection = <<>>
    /\ definitions = <<>>
    /\ orgRuns = <<>>
    /\ tableKind = "list"
    /\ tableLines = <<>>
    /\ tableResult = <<>>
    /\ tableDone = FALSE
    /\ jsonStdout = <<>>
    /\ jsonValue = JsonArray(<<>>)
    /\ jsonKey = <<>>
    /\ jsonRecords = <<>>
    /\ jsonRaised = FALSE
    /\ jsonDone = FALSE
    /\ fetchArgs = <<>>
    /\ fetchKey = <<>>
    /\ cliLog = <<>>
    /\ cliExits = <<>>
    /\ fetchPc = "returned"
    /\ fetchOut = NoFetch
    /\ infoExit = Outcome("ok", <<>>)
    /\ infoOut = NoInfo
    /\ infoDone = FALSE
    /\ presentKind = TaskKind
    /\ presentRecords = <<>>
    /\ treeItems = <<>>
    /\ treeDone = FALSE
    /\ statusText = LoadingText
    /\ expiryNotified = EmptyExpiryState
    /\ storeWrites = 0
    /\ defaultOrg = NoDefault
    /\ updates = <<>>
    /\ shown = <<>>
    /\ svcPlain = Outcome("ok", <<>>)
    /\ svcMeta = MetaOutcome("ok", <<>>, undefined)
    /\ svcOut = NoGroups
    /\ svcDone = FALSE
    /\ viewKind = "tasks"
    /\ projectFolders = <<>>
    /\ rootItems = <<>>
    /\ rootDone = FALSE

\* the command is run: resolveTreeItem, then `await pickProjectFolder(...)`
ServiceConnect ==
    /\ connectPc = "idle"
    /\ connectPc' = "pickProjectFolder"
    /\ UNCHANGED <<connectItem, serviceGroups, connectType, attributes, trimmedName,
                   commandParts, attributeIndex, answers, terminalText>>
    /\ UNCHANGED <<dayVars, taskVars, orgVars, tableVars, jsonVars, presentVars, fetchVars>>
    /\ UNCHANGED <<treeVars, svcVars, infoVars, statusVars>>

\* pickProjectFolder settles: without a folder the handler returns, else it
\* reads the item and goes to the first await its data asks for
FolderPicked ==
    /\ connectPc = "pickProjectFolder"
    /\ Len(answers) < MaxAnswers
    /\ \E picked \in BOOLEAN :
        /\ answers' = Append(answers, Answer("folder", <<>>, IF picked THEN <<>> ELSE undefined))
        /\ IF ~picked
           THEN /\ connectPc' = "returned"
                /\ UNCHANGED <<connectType, attributes>>
           ELSE /\ connectType' = connectItem.type
                /\ attributes' = connectItem.attributes
                /\ connectPc' = IF connectItem.type = undefined THEN "groupsForPick"
                                ELSE IF connectItem.attributes = <<>> THEN "groupsForMatch"
                                ELSE "nameInput"
    /\ UNCHANGED <<connectItem, serviceGroups, trimmedName, commandParts, attributeIndex,
                   terminalText>>
    /\ UNCHANGED <<dayVars, taskVars, orgVars, tableVars, jsonVars, presentVars, fetchVars>>
    /\ UNCHANGED <<treeVars, svcVars, infoVars, statusVars>>

\* `await service.getServiceTypeGroups(folder)` settles, before the type pick
\* or for the attributes of a known type
GroupsSettle ==
    /\ connectPc \in {"groupsForPick", "groupsForMatch"}
    /\ IF serviceGroups.thrown
       THEN connectPc' = "returned" /\ UNCHANGED attributes
       ELSE IF connectPc = "groupsForPick"
       THEN /\ connectPc' = IF serviceGroups.groups = <<>> THEN "returned" ELSE "typePick"
            /\ UNCHANGED attributes
       ELSE /\ connectPc' = "nameInput"
            /\ attributes' =
                 LET match == {i \in 1..Len(serviceGroups.groups) :
                                  serviceGroups.groups[i].type = connectType}
                 IN IF match = {} THEN attributes
                    ELSE serviceGroups.groups[CHOOSE i \in match : \A j \in match : i <= j].attributes
    /\ UNCHANGED <<connectItem, serviceGroups, connectType, trimmedName, commandParts,
                   attributeIndex, answers, terminalText>>
    /\ UNCHANGED <<dayVars, taskVars, orgVars, tableVars, jsonVars, presentVars, fetchVars>>
    /\ UNCHANGED <<treeVars, svcVars, infoVars, statusVars>>

\* the quick pick of service types settles
TypePicked ==
    /\ connectPc = "typePick"
    /\ Len(answers) < MaxAnswers
    /\ \E pick \in 0..Len(serviceGroups.groups) :
        /\ answers' = Append(answers, Answer("type", <<>>, IF pick = 0 THEN undefined ELSE <<>>))
        /\ IF pick = 0
           THEN connectPc' = "returned" /\ UNCHANGED <<connectType, attributes>>
           ELSE /\ connectType' = serviceGroups.groups[pick].type
                /\ attributes' = serviceGroups.groups[pick].attributes
                /\ connectPc' = IF serviceGroups.groups[pick].attributes = <<>>
                                THEN "groupsForMatch" ELSE "nameInput"
    /\ UNCHANGED <<connectItem, serviceGroups, trimmedName, commandParts, attributeIndex,
                   terminalText>>
    /\ UNCHANGED <<dayVars, taskVars, orgVars, tableVars, jsonVars, presentVars, fetchVars>>
    /\ UNCHANGED <<treeVars, svcVars, infoVars, statusVars>>

\* the input box of the service name settles
NameEntered ==
    /\ connectPc = "nameInput"
    /\ Len(answers) < MaxAnswers
    /\ \E nameInput \in NameInputs :
        /\ answers' = Append(answers, Answer("name", <<>>, nameInput))
        /\ IF nameInput = undefined
           THEN connectPc' = "returned" /\ UNCHANGED trimmedName
           ELSE connectPc' = "toggleSelection" /\ trimmedName' = Trim(nameInput)
    /\ UNCHANGED <<connectItem, serviceGroups, connectType, attributes, commandParts,
                   attributeIndex, terminalText>>
    /\ UNCHANGED <<dayVars, taskVars, orgVars, tableVars, jsonVars, presentVars, fetchVars>>
    /\ UNCHANGED <<treeVars, svcVars, infoVars, statusVars>>

\* the quick pick of the flags settles; without attributes the command is sent
TogglePicked ==
    /\ connectPc = "toggleSelection"
    /\ Len(answers) < MaxAnswers
    /\ \E toggleSelection \in ToggleSelections :
        /\ answers' = Append(answers, Answer("toggle", <<>>,
                                IF toggleSelection = <<undefined>> THEN undefined ELSE <<>>))
        /\ IF toggleSelection = <<undefined>>
           THEN /\ connectPc' = "returned"
                /\ UNCHANGED <<commandParts, attributeIndex, terminalText>>
           ELSE LET parts == baseCommandParts(connectType, trimmedName, toggleSelection)
                IN /\ commandParts' = parts
                   /\ IF attributes = <<>>
                      THEN /\ terminalText' = Append(terminalText, JoinWords(parts))
                           /\ connectPc' = "sent"
                           /\ UNCHANGED attributeIndex
                      ELSE /\ connectPc' = "attributeInput"
                           /\ attributeIndex' = 1
                           /\ UNCHANGED terminalText
    /\ UNCHANGED <<connectItem, serviceGroups, connectType, attributes, trimmedName>>
    /\ UNCHANGED <<dayVars, taskVars, orgVars, tableVars, jsonVars, presentVars, fetchVars>>
    /\ UNCHANGED <<treeVars, svcVars, infoVars, statusVars>>

\* the input box of an attribute settles; after the last attribute the
\* command is sent
AttributeEntered ==
    /\ connectPc = "attributeInput"
    /\ Len(answers) < MaxAnswers
    /\ \E input \in TextInputs :
        LET attribute == attributes[attributeIndex]
            pass == attributeInput(attribute, input)
            parts == withAttribute(commandParts, attribute, pass.value)
        IN /\ answers' = Append(answers, Answer("attribute", attribute.name, input))
           /\ IF pass.next = "return"
              THEN /\ connectPc' = "returned"
                   /\ UNCHANGED <<commandParts, attributeIndex, terminalText>>
              ELSE IF pass.next = "continue"
              THEN /\ connectPc' = "requiredMessage"
                   /\ UNCHANGED <<commandParts, attributeIndex, terminalText>>
              ELSE /\ commandParts' = parts
                   /\ IF attributeIndex < Len(attributes)
                      THEN /\ attributeIndex' = attributeIndex + 1
                           /\ UNCHANGED <<connectPc, terminalText>>
                      ELSE /\ terminalText' = Append(terminalText, JoinWords(parts))
                           /\ connectPc' = "sent"
                           /\ UNCHANGED attributeIndex
    /\ UNCHANGED <<connectItem, serviceGroups, connectType, attributes, trimmedName>>
    /\ UNCHANGED <<dayVars, taskVars, orgVars, tableVars, jsonVars, presentVars, fetchVars>>
    /\ UNCHANGED <<treeVars, svcVars, infoVars, statusVars>>

\* `await showErrorMessage('A value is required ...')` settles: the loop goes on
RequiredMessageClosed ==
    /\ connectPc = "requiredMessage"
    /\ connectPc' = "attributeInput"
    /\ UNCHANGED <<connectItem, serviceGroups, connectType, attributes, trimmedName,
                   commandParts, attributeIndex, answers, terminalText>>
    /\ UNCHANGED <<dayVars, taskVars, orgVars, tableVars, jsonVars, presentVars, fetchVars>>
    /\ UNCHANGED <<treeVars, svcVars, infoVars, statusVars>>

DayNext == ParseScratchDayCount \/ FormatScratchDayDisplay
TaskNext == IncludeConfigDefinitions

SpecDays == DayInit /\ [][DayNext]_vars
SpecTasks == TaskInit /\ [][TaskNext]_vars
OrgNext == GetOrgEntries
SpecOrgs == OrgInit /\ [][OrgNext]_vars
ReconcileInit == TaskInit \/ OrgInit
\* one view is refreshed again and again: the tasks/flows view or the orgs view
ReconcileNext ==
    \/ orgRuns = <<>> /\ IncludeConfigDefinitions
    \/ taskRuns = <<>> /\ GetOrgEntries
SpecReconcile == ReconcileInit /\ [][ReconcileNext]_vars
TableNext == ParseServiceListOutput \/ ParseServiceInfoOutput
SpecTables == TableInit /\ [][TableNext]_vars
JsonNext == ParseJsonRecords
SpecJson == JsonInit /\ [][JsonNext]_vars
PresentNext == BuildGroupedItems
SpecPresenter == PresentInit /\ [][PresentNext]_vars
FetchNext == FetchRecords \/ CliExit \/ FetchAfterJson \/ FetchAfterText
\* the step FetchAfterJson or FetchAfterText, told by its guard and its change
\* of fetchPc
FetchResumes ==
    /\ fetchPc \in {"awaitJson", "awaitText"}
    /\ Len(cliExits) = Len(cliLog)
    /\ fetchPc' \in {"awaitText", "returned", "thrown"} \ {fetchPc}
\* the continuation of an awaited call runs once the child process has exited;
\* nothing makes a child process exit
SpecFetch == FetchInit /\ [][FetchNext]_vars /\ WF_fetchPc(FetchResumes)
ListingNext == ListTasks
SpecListing == ListingInit /\ [][ListingNext]_vars
TreeNext == GetChildren
SpecTree == TreeInit /\ [][TreeNext]_vars
ServiceNext == GetServiceTypeGroups
SpecServices == ServiceInit /\ [][ServiceNext]_vars
OrgInfoNext == GetOrgInfo
SpecOrgInfo == OrgInfoInit /\ [][OrgInfoNext]_vars
StatusNext ==
    \/ UpdateDefaultOrgStatus
    \/ FindDefaultOrgSettles
    \/ NotificationAnswered
    \/ FollowUpSettles
    \/ SetDefaultOrg
SpecStatus == StatusInit /\ [][StatusNext]_vars
ConnectNext ==
    \/ ServiceConnect
    \/ FolderPicked
    \/ GroupsSettle
    \/ TypePicked
    \/ NameEntered
    \/ TogglePicked
    \/ AttributeEntered
    \/ RequiredMessageClosed
SpecConnect == ConnectInit /\ [][ConnectNext]_vars

(***************************************************************************)
(* Claims about the day-count functions (checked under SpecDays)           *)
(***************************************************************************)
DayLeftText == <<" ", "d", "a", "y", " ", "l", "e", "f", "t">>
DaysLeftText == <<" ", "d", "a", "y", "s", " ", "l", "e", "f", "t">>

DayTrimmed == IF IsString(dayInput) THEN Trim(dayInput) ELSE <<>>
DayBothDone == dayPc = {"parsed", "shown"}

\* the input has the fraction form "a/b" with b > 0
DayIsFraction ==
    /\ FractionMatch(DayTrimmed) # <<>>
    /\ ParseInt(FractionMatch(DayTrimmed)[2]) > 0
DayA == ParseInt(FractionMatch(DayTrimmed)[1])
DayB == ParseInt(FractionMatch(DayTrimmed)[2])

\* C9 as stated: "a/b" (b > 0, a # b) is parsed to remaining = a, total = b
\* and displayed as "a/b days left".
C9_AsStated ==
    (DayBothDone /\ DayIsFraction /\ DayA # DayB) =>
        /\ dayParsed.remaining = DayA
        /\ dayParsed.total = DayB
        /\ dayDisplay = NumberToString(DayA) \o <<"/">> \o NumberToString(DayB) \o DaysLeftText

\* C9 amended: "a/b" (b > 0, a > 0) is parsed to used = a, total = b and
\* remaining = b - a (0 when a exceeds b), and displayed as
\* "<remaining>/<b> days left" ("day" when b = 1); "3/10" displays "7/10 days left".
C9_FractionIsUsedOverTotal ==
    (DayBothDone /\ DayIsFraction /\ DayA > 0) =>
        LET rem == IF DayB > DayA THEN DayB - DayA ELSE 0
        IN /\ dayParsed.used = DayA
           /\ dayParsed.total = DayB
           /\ dayParsed.remaining = rem
           /\ dayDisplay = NumberToString(rem) \o <<"/">> \o NumberToString(DayB)
                            \o (IF DayB = 1 THEN DayLeftText ELSE DaysLeftText)

C9_Witness ==
    /\ DayBothDone
    /\ dayInput = <<"3", "/", "1", "0">>
    /\ dayParsed = [remaining |-> 7, total |-> 10, used |-> 3]
    /\ dayDisplay = <<"7", "/", "1", "0">> \o DaysLeftText

\* The parts of the display table that C10 states and the code agrees with:
\* bare integer, "Expired", the remaining = total row, and absent or
\* unparseable input.
DayTableCommon ==
    /\ IsDigits(DayTrimmed) =>
          dayParsed.total = ParseInt(DayTrimmed) /\ dayParsed.remaining = ParseInt(DayTrimmed)
    /\ dayParsed.total = 0 => dayDisplay = ExpiredText
    /\ (dayParsed.total > 0 /\ dayParsed.remaining = dayParsed.total) =>
          dayDisplay = NumberToString(dayParsed.remaining)
                        \o (IF dayParsed.remaining = 1 THEN DayLeftText ELSE DaysLeftText)
    /\ (DayTrimmed = <<>> \/ \E i \in 1..Len(DayTrimmed) : DayTrimmed[i] = "a") =>
          dayParsed = NoBreakdown
    /\ \/ dayParsed = NoBreakdown
       \/ dayParsed.total >= 0 /\ dayParsed.remaining >= 0

DayIsOtherRow ==
    dayParsed.total > 0 /\ dayParsed.remaining # dayParsed.total

KeptLive ==
    SelectSeq(records, LAMBDA r : r.kind = "object" \/ (r.kind = "string" /\ Trim(r.text) # <<>>))

\* a live value seen as a record: an object as it is, a string as { name: <text> }
LiveView(r) == IF r.kind = "object" THEN r ELSE [EmptyRecord EXCEPT !.name = Trim(r.text)]

\* normalized name (trimmed, lower-cased) under the section's label keys
NameKey(r) ==
    LET name == pickFirstString(r, LabelKeys(section))
    IN IF name = undefined THEN undefined ELSE ToLowerCase(name)

LiveKeys ==
    LET kept == KeptLive
    IN {NameKey(LiveView(kept[i])) : i \in 1..Len(kept)} \ {undefined}

\* the declarative stubs of both documents; a stub has a non-blank name
AllStubs ==
    LET all == convertConfigSectionToRecords(projectSection, "project")
                 \o convertConfigSectionToRecords(globalSection, "global")
    IN {all[i] : i \in {j \in 1..Len(all) : Trim(all[j].name) # <<>>}}

StubKey(stub) == ToLowerCase(Trim(stub.name))

\* the call that has just returned (earlier calls were the latest in earlier states)
LatestRun == {Len(taskRuns)} \ {0}

\* C1 as stated: the reconciled task/flow list holds exactly one record per
\* distinct normalized name, also when live records repeat a name.
C1_AsStated ==
    \A r \in 1..Len(taskRuns) :
        /\ \A i, j \in 1..Len(taskRuns[r]) :
              (i < j /\ NameKey(taskRuns[r][i]) # undefined) =>
                  NameKey(taskRuns[r][i]) # NameKey(taskRuns[r][j])
        /\ \A k \in LiveKeys \cup {StubKey(stub) : stub \in AllStubs} :
              \E i \in 1..Len(taskRuns[r]) : NameKey(taskRuns[r][i]) = k

\* C4: the record merged from a live record and the stub found under its
\* normalized name keeps the live description when there is one, takes the
\* stub's group only when the live group is absent or "Ungrouped", and
\* carries the stub's config-origin tag and config blob.  (The merge happens
\* at the live record that finds the stub in the lookup, i.e. the first one
\* carrying the name.)
C4_LivePrecedence ==
    LET kept == KeptLive
        stubs == AllStubs
        keys == [i \in 1..Len(kept) |-> NameKey(LiveView(kept[i]))]
    IN \A r \in LatestRun : \A i \in 1..Len(kept) :
        LET live == LiveView(kept[i])
            merged == taskRuns[r][i]
            mine == {stub \in stubs : StubKey(stub) = keys[i]}
        IN (/\ keys[i] # undefined
            /\ \A j \in 1..(i - 1) : keys[j] # keys[i]
            /\ mine # {})
           => \E stub \in mine :
                /\ merged.description =
                      (IF Truthy(live.description) THEN live.description
                       ELSE IF Truthy(stub.description) THEN stub.description
                       ELSE live.description)
                /\ merged.group =
                      (IF Truthy(stub.group) /\ (~Truthy(live.group) \/ live.group = Ungrouped)
                       THEN stub.group ELSE live.group)
                /\ merged.configSource = stub.configSource
                /\ stub.configDefinition # undefined =>
                      merged.configDefinition = stub.configDefinition

C4_Witness ==
    /\ records = <<[EmptyRecord EXCEPT !.name = deploy, !.description = liveDesc]>>
    /\ projectSection = <<ConfigEntry(deploy, "mapping", configDesc, Custom)>>
    /\ globalSection = <<>>
    /\ Len(taskRuns) >= 1
    /\ Len(taskRuns[1]) = 1
    /\ taskRuns[1][1].description = liveDesc
    /\ taskRuns[1][1].group = Custom
    /\ taskRuns[1][1].configSource = <<"project">>
    /\ taskRuns[1][1].configDefinition = <<"obj", configDesc, Custom>>

\* C5: nothing is lost: the result starts with the kept live records in input
\* order, followed by exactly one record for every stub name that no live
\* record carries, and nothing else.
C5_NothingLost ==
    LET kept == KeptLive
        n == Len(kept)
        unmatched == {StubKey(stub) : stub \in AllStubs} \ LiveKeys
    IN \A r \in LatestRun :
        LET res == taskRuns[r]
            resKeys == [j \in 1..Len(res) |-> NameKey(res[j])]
        IN /\ Len(res) = n + Cardinality(unmatched)
           /\ \A i \in 1..n :
                 /\ res[i].name = LiveView(kept[i]).name
                 /\ res[i].task_name = LiveView(kept[i]).task_name
                 /\ res[i].flow = LiveView(kept[i]).flow
           /\ \A k \in unmatched :
                 /\ Cardinality({j \in 1..Len(res) : resKeys[j] = k}) = 1
                 /\ \A j \in 1..Len(res) : resKeys[j] = k => j > n

C5_Witness ==
    /\ records = <<StringValue(deploy), [EmptyRecord EXCEPT !.description = liveDesc]>>
    /\ projectSection = <<>>
    /\ globalSection = <<ConfigEntry(build, "other", undefined, undefined)>>
    /\ Len(taskRuns) >= 1
    /\ Len(taskRuns[1]) = 3
    /\ taskRuns[1][1].name = deploy
    /\ taskRuns[1][2].description = liveDesc
    /\ taskRuns[1][3].name = build
    /\ taskRuns[1][3].configSource = <<"global">>

(***************************************************************************)
(* Org reconciliation (getOrgEntries, createOrgEntry)                      *)
(***************************************************************************)
OrgLatest == IF orgRuns = <<>> THEN <<>> ELSE orgRuns[Len(orgRuns)]
OrgRan == orgRuns # <<>>
LiveOrgRecords == normalizeJsonRecords(OrgJsonValue(orgShape, orgJson), orgs)

\* the alias a live record carries: its first non-blank label, or its text
LiveOrgAlias(record) ==
    IF record.kind = "object" THEN pickFirstString(record, orgLabelKeys)
    ELSE IF record.kind = "string" /\ Trim(record.text) # <<>> THEN Trim(record.text)
    ELSE undefined

LiveOrgKeys ==
    LET live == LiveOrgRecords
    IN {ToLowerCase(LiveOrgAlias(live[i])) :
          i \in {j \in 1..Len(live) : LiveOrgAlias(live[j]) # undefined}}

DefinitionKeys ==
    LET map == getOrgDefinitions(orgsDirectory, scratchSection)
    IN {map[i][1] : i \in 1..Len(map)}

EntryKey(entry) == ToLowerCase(Trim(entry.alias))

\* C2 (as stated): the org list holds no two entries whose aliases are equal
\* after trimming and lower-casing, and it is in ascending order of alias.
C2_AsStated ==
    LET run == OrgLatest
    IN /\ \A i, j \in 1..Len(run) : i # j => EntryKey(run[i]) # EntryKey(run[j])
       /\ \A i, j \in 1..Len(run) : i < j => localeCompare(run[i].alias, run[j].alias) <= 0

\* C3: every definition whose alias no live record carries yields exactly one
\* entry of that alias that is definitionOnly, not created and not expired.
C3_UnmatchedDefinitionIsStub ==
    OrgRan =>
        LET run == OrgLatest
        IN \A k \in DefinitionKeys \ LiveOrgKeys :
             Cardinality({j \in 1..Len(run) :
                            /\ EntryKey(run[j]) = k
                            /\ run[j].definitionOnly
                            /\ ~run[j].orgCreated
                            /\ ~run[j].expired
                            /\ run[j].data.definitionOnly = jsTrue
                            /\ run[j].data.orgCreated = jsFalse
                            /\ run[j].data.expired = jsFalse}) = 1

C3_Witness ==
    /\ orgJson = <<>>
    /\ orgsDirectory = <<>>
    /\ scratchSection = <<ScratchEntry(qaPadded, "object", <<"orgs/beta.yml">>)>>
    /\ OrgRan
    /\ Len(OrgLatest) = 1
    /\ OrgLatest[1].alias = qa
    /\ OrgLatest[1].definitionOnly
    /\ ~OrgLatest[1].orgCreated
    /\ ~OrgLatest[1].expired

RunsAgree(runs) == \A i \in 1..Len(runs) : runs[i] = runs[1]

HasDomainString(data) ==
    \E key \in {"domain", "instance_url", "login_url"} :
        IsString(data[key]) /\ Trim(data[key]) # <<>>

\* C7: an entry whose record has no non-empty domain, instance_url or login_url
\* string has orgCreated = false, whatever its orgCreated / active / is_active,
\* scratch and expired values are.
C7_NoDomainNotCreated ==
    LET run == OrgLatest
    IN \A j \in 1..Len(run) :
         ~HasDomainString(run[j].data) =>
             ~run[j].orgCreated /\ run[j].data.orgCreated = jsFalse

C7_Witness ==
    /\ OrgRan
    /\ Len(orgJson) = 1
    /\ orgJson[1][2].active = jsTrue
    /\ orgJson[1][2].is_active = yes
    /\ orgJson[1][2].orgCreated = jsTrue
    /\ Len(OrgLatest) = 1
    /\ ~HasDomainString(OrgLatest[1].data)
    /\ OrgLatest[1].data.active = jsTrue
    /\ ~OrgLatest[1].orgCreated

\* the explicit signal of a record as it was listed
ListedActive(raw) == getBoolean(raw, <<"orgCreated", "active", "is_active">>)

\* C8 (as stated): definitionMissing or definitionOnly gives orgCreated = false;
\* otherwise, for the entry of a single listed record that has a domain,
\* orgCreated is the record's explicit signal when it has one, else NOT expired
\* for a scratch org and true for a non-scratch org, in either JSON shape.
C8_AsStated ==
    LET run == OrgLatest
    IN /\ \A j \in 1..Len(run) :
            run[j].definitionMissing \/ run[j].definitionOnly => ~run[j].orgCreated
       /\ Len(orgJson) = 1 =>
            \A j \in 1..Len(run) :
                (/\ ~run[j].definitionMissing
                 /\ ~run[j].definitionOnly
                 /\ HasDomainString(run[j].data)) =>
                    LET raw == orgJson[1][2]
                    IN run[j].orgCreated =
                         (IF ListedActive(raw) # undefined THEN Bool(ListedActive(raw))
                          ELSE IF run[j].isScratch THEN ~run[j].expired
                          ELSE TRUE)

(***************************************************************************)
(* Claims about the service table parsers (checked under SpecTables)       *)
(***************************************************************************)
\* one-based position of the header line, 0 when there is none
TableHeaderAt ==
    LET hits == {i \in 1..Len(tableLines) :
                   IF tableKind = "list" THEN tableLines[i] = ListHeader
                   ELSE tableLines[i] = InfoHeader}
    IN IF hits = {} THEN 0 ELSE CHOOSE i \in hits : \A j \in hits : i <= j

\* the lines below the header that are neither blank nor a rule
TableBody ==
    SelectSeq(SubSeq(tableLines, TableHeaderAt + 1, Len(tableLines)),
              LAMBDA line : Trim(line) # <<>> /\ ~IsRuleLine(line))

\* the columns of a body line, cut at the header's column starts
ListColumns(line) ==
    [default |-> Trim(Slice(line, 0, 8)),
     type |-> Trim(Slice(line, 8, 13)),
     name |-> Trim(Slice(line, 13, 18)),
     description |-> Trim(Slice(line, 18, Len(line)))]

InfoColumns(line) ==
    [key |-> Trim(Slice(line, 0, 4)), value |-> Trim(Slice(line, 4, Len(line)))]

IsListDataLine(line) ==
    LET c == ListColumns(line) IN c.default # <<>> \/ c.type # <<>> \/ c.name # <<>>

IsInfoDataLine(line) == InfoColumns(line).key # <<>>

\* text fragments joined by single spaces, inner runs of spaces collapsed
JoinFragment(text, fragment) ==
    LET f == Trim(CollapseWhitespace(fragment))
    IN IF text = <<>> THEN f ELSE IF f = <<>> THEN text ELSE text \o <<" ">> \o f

\* the descriptions the table states: one per data line, each followed by the
\* fragments of the continuation lines below it
RECURSIVE StatedDescriptions(_, _)
StatedDescriptions(body, acc) ==
    IF body = <<>> THEN acc
    ELSE LET line == Head(body)
             n == Len(acc)
         IN IF IsListDataLine(line)
            THEN StatedDescriptions(Tail(body),
                     Append(acc, JoinFragment(<<>>, ListColumns(line).description)))
            ELSE IF n > 0
            THEN StatedDescriptions(Tail(body),
                     [acc EXCEPT ![n] = JoinFragment(@, ListColumns(line).description)])
            ELSE StatedDescriptions(Tail(body), acc)

TableParsed == tableDone /\ TableHeaderAt > 0

\* C11 (as stated): in the service list, a line below the header with empty
\* Default, Type and Name columns and a non-empty Description creates no row;
\* its text is appended to the description of the row above it with exactly
\* one space, so a data line followed by k such lines is one row whose
\* description is the k+1 fragments joined by single spaces.
C11_AsStated ==
    (TableParsed /\ tableKind = "list") =>
        LET stated == StatedDescriptions(TableBody, <<>>)
        IN /\ Len(tableResult) = Len(stated)
           /\ \A k \in 1..Len(stated) : tableResult[k].description = stated[k]

\* C12 (as stated): only a rule line directly below the header is skipped as
\* the separator; every data line below the header is returned as a row (list)
\* or an entry (info), in order, also when a rule line or a line holding three
\* dashes comes later.
C12_AsStated ==
    TableParsed =>
        LET data == SelectSeq(TableBody,
                              LAMBDA line : IF tableKind = "list" THEN IsListDataLine(line)
                                            ELSE IsInfoDataLine(line))
        IN /\ Len(tableResult) = Len(data)
           /\ \A k \in 1..Len(data) :
                IF tableKind = "list"
                THEN tableResult[k].type = ListColumns(data[k]).type
                ELSE tableResult[k].key = InfoColumns(data[k]).key

(***************************************************************************)
(* Claims about the JSON record extractor (checked under SpecJson)         *)
(***************************************************************************)
\* stdout is the JSON document and nothing else
JsonClean == Trim(jsonStdout) = Stringify(jsonValue)

\* the top-level entries of the printed object
JsonTop == ObjectEntries(jsonValue)
JsonPreferredAt == {i \in 1..Len(JsonTop) : JsonTop[i][1] = jsonKey}
JsonPreferred == JsonTop[CHOOSE i \in JsonPreferredAt : TRUE][2]
JsonArraysAt == {i \in 1..Len(JsonTop) : JsonTop[i][2].kind = "array"}

OwnText(value, field) ==
    IF value.kind = "object" /\ IsString(value[field]) /\ Trim(value[field]) # <<>>
    THEN value[field] ELSE <<>>

\* an alias map converted entry by entry: one record per entry, in order; the
\* map key is the alias only of an entry without a non-blank alias of its own
\* and the name only of an object entry with neither a name nor an alias of
\* its own; an entry that is no object becomes { alias: key, value }
ConvertedFrom(entries, result) ==
    /\ Len(result) = Len(entries)
    /\ \A i \in 1..Len(entries) :
         LET key == entries[i][1]
             value == entries[i][2]
             ownAlias == OwnText(value, "alias")
             ownName == OwnText(value, "name")
         IN /\ result[i].kind = "object"
            /\ result[i].alias = (IF ownAlias # <<>> THEN Trim(ownAlias) ELSE key)
            /\ value.kind \in {"object", "entries"} =>
                 result[i].name = (IF ownName # <<>> THEN ownName
                                   ELSE IF ownAlias # <<>> THEN Trim(ownAlias) ELSE key)
            /\ value.kind = "object" =>
                 /\ result[i].domain = value.domain
                 /\ result[i].expired = value.expired
            /\ value.kind = "string" => result[i].value = value.text

\* C13: the extractor normalizes a parsed value by the ordered rule: array as
\* it is; object: array at the preferred key; else non-array object at the
\* preferred key converted entry by entry; else the first array-typed
\* top-level value; else a non-empty object of non-array objects converted as
\* an alias map; else the object as a single-element sequence.
C13_OrderedRule ==
    (jsonDone /\ JsonClean) =>
        IF jsonValue.kind = "array" THEN jsonRecords = jsonValue.items
        ELSE IF jsonValue.kind \notin {"object", "entries"} THEN TRUE
        ELSE IF JsonPreferredAt # {} /\ JsonPreferred.kind = "array"
        THEN jsonRecords = JsonPreferred.items
        ELSE IF JsonPreferredAt # {} /\ JsonPreferred.kind \in {"object", "entries"}
        THEN ConvertedFrom(ObjectEntries(JsonPreferred), jsonRecords)
        ELSE IF JsonArraysAt # {}
        THEN jsonRecords = JsonTop[CHOOSE i \in JsonArraysAt : \A j \in JsonArraysAt : i <= j][2].items
        ELSE IF JsonTop # <<>> /\ \A i \in 1..Len(JsonTop) : JsonTop[i][2].kind \in {"object", "entries"}
        THEN ConvertedFrom(JsonTop, jsonRecords)
        ELSE jsonRecords = <<jsonValue>>

C13_Witness ==
    /\ jsonDone
    /\ JsonClean
    /\ jsonKey = orgs
    /\ jsonValue = JsonObject(<<<<qa, JsonArray(<<JsonRecA>>)>>,
                                <<orgs, JsonObject(<<<<qa, JsonRecC>>, <<dev, JsonRecA>>,
                                                     <<QA, OrgString(url)>>>>)>>>>)
    /\ Len(jsonRecords) = 3
    /\ jsonRecords[1].alias = qa
    /\ jsonRecords[1].name = dev
    /\ jsonRecords[2].alias = QA
    /\ jsonRecords[3].alias = QA
    /\ jsonRecords[3].value = url

\* the texts the extractor is said to try: the trimmed stdout, then the text
\* from the first '{' and from the first '[' onward, the earlier one first
JsonCandidates ==
    LET trimmed == Trim(jsonStdout)
        starts == {i \in 1..Len(trimmed) :
                     /\ trimmed[i] \in {"{", "["}
                     /\ \A j \in 1..(i - 1) : trimmed[j] # trimmed[i]}
        first == IF starts = {} THEN 0 ELSE CHOOSE i \in starts : \A j \in starts : i <= j
        second == IF Cardinality(starts) < 2 THEN 0 ELSE CHOOSE i \in starts : i # first
    IN <<trimmed>>
       \o (IF first = 0 THEN <<>> ELSE <<Trim(SubSeq(trimmed, first, Len(trimmed)))>>)
       \o (IF second = 0 THEN <<>> ELSE <<Trim(SubSeq(trimmed, second, Len(trimmed)))>>)

JsonParsingAt == {k \in 1..Len(JsonCandidates) : JsonParse(JsonCandidates[k]) # ParseError}

\* C14: parseJsonRecords never throws; it returns the normalization of the
\* first candidate text that parses, and the empty sequence when none does.
C14_NeverRaises ==
    jsonDone =>
        /\ ~jsonRaised
        /\ jsonRecords =
             (IF JsonParsingAt = {} THEN <<>>
              ELSE normalizeJsonRecords(
                     JsonParse(JsonCandidates[CHOOSE k \in JsonParsingAt :
                                                 \A j \in JsonParsingAt : k <= j]),
                     jsonKey))

C14_Witness ==
    /\ jsonDone
    /\ ~jsonRaised
    /\ Len(jsonStdout) > 4
    /\ SubSeq(jsonStdout, 1, 4) = <<"[", "i", "]", " ">>
    /\ jsonValue.kind = "entries"
    /\ JsonParse(Trim(jsonStdout)) = ParseError
    /\ jsonRecords = normalizeJsonRecords(jsonValue, jsonKey)
    /\ jsonRecords = <<JsonRecA>>

(***************************************************************************)
(* Task/flow presenter                                                     *)
(***************************************************************************)
PresentLabelKeys == IF presentKind = TaskKind THEN taskLabelKeys ELSE flowLabelKeys
PresentBuckets ==
    {groupKey(presentRecords[i], presentKind) : i \in 1..Len(presentRecords)}
PresentItems ==
    [i \in 1..Len(presentRecords) |-> TreeItem(presentRecords[i], PresentLabelKeys, presentKind)]
IsHeader(item) == item.itemKind = <<"g", "r", "o", "u", "p">>
SortedByLabel(items) ==
    \A i \in 1..(Len(items) - 1) : localeCompare(items[i].label, items[i + 1].label) <= 0
Occurrences(items, x) == Cardinality({i \in 1..Len(items) : items[i] = x})
SameItems(a, b) ==
    /\ Len(a) = Len(b)
    /\ \A i \in 1..Len(a) : Occurrences(a, a[i]) = Occurrences(b, a[i])
RECURSIVE Flatten(_)
Flatten(headers) ==
    IF headers = <<>> THEN <<>> ELSE Head(headers).children \o Flatten(Tail(headers))
AllUngrouped == PresentBuckets \subseteq {Ungrouped}

\* C15: buildGroupedItems returns the items themselves, without headers and
\* sorted by label, exactly when every record resolves to the 'Ungrouped'
\* bucket; otherwise every element of the result is a group header and every
\* record's item, the 'Ungrouped' ones included, is a child of the header of
\* its bucket.
C15_FlatExactlyWhenAllUngrouped ==
    treeDone =>
        IF AllUngrouped
        THEN /\ \A i \in 1..Len(treeItems) : ~IsHeader(treeItems[i])
             /\ SortedByLabel(treeItems)
             /\ SameItems(treeItems, PresentItems)
        ELSE /\ \A i \in 1..Len(treeItems) : IsHeader(treeItems[i])
             /\ SameItems(Flatten(treeItems), PresentItems)
             /\ \A i \in 1..Len(presentRecords) :
                   \E h \in 1..Len(treeItems) :
                      /\ treeItems[h].label = groupKey(presentRecords[i], presentKind)
                      /\ \E c \in 1..Len(treeItems[h].children) :
                            treeItems[h].children[c] = PresentItems[i]

\* two records without a group and one with a group: all three are under headers
C15_Witness ==
    /\ treeDone
    /\ Len(presentRecords) = 3
    /\ PresentBuckets = {Ungrouped, Apps}
    /\ \E h \in 1..Len(treeItems) :
          /\ treeItems[h].label = Ungrouped
          /\ Len(treeItems[h].children) = 2

\* C16: when buildGroupedItems emits headers there is exactly one per bucket,
\* `Local <kind>s` is first and `Workspace <kind>s` next whenever they exist,
\* the other buckets follow in alphabetical order, and the children of every
\* header are in alphabetical order of label.
C16_HeaderOrder ==
    treeDone /\ ~AllUngrouped =>
        LET local == LocalCategory(presentKind)
            workspace == WorkspaceCategory(presentKind)
            labels == [i \in 1..Len(treeItems) |-> treeItems[i].label]
        IN /\ Len(treeItems) = Cardinality(PresentBuckets)
           /\ {labels[i] : i \in 1..Len(labels)} = PresentBuckets
           /\ local \in PresentBuckets => labels[1] = local
           /\ workspace \in PresentBuckets =>
                 labels[IF local \in PresentBuckets THEN 2 ELSE 1] = workspace
           /\ \A i, j \in 1..Len(labels) :
                 i < j /\ {labels[i], labels[j]} \cap {local, workspace} = {}
                    => localeCompare(labels[i], labels[j]) < 0
           /\ \A i \in 1..Len(treeItems) : SortedByLabel(treeItems[i].children)

\* a named group listed before a workspace and a project definition
C16_Witness ==
    /\ treeDone
    /\ Len(presentRecords) = 3
    /\ groupKey(presentRecords[1], presentKind) = Apps
    /\ groupKey(presentRecords[2], presentKind) = WorkspaceCategory(presentKind)
    /\ groupKey(presentRecords[3], presentKind) = LocalCategory(presentKind)
    /\ treeItems[3].label = Apps

(***************************************************************************)
(* fetchRecords                                                            *)
(***************************************************************************)
\* the error text mentions the flag or 'no such option'
MentionsFlag(message) ==
    \E i \in 1..Len(message) :
       \/ i + 5 <= Len(message) /\ ToLowerCase(SubSeq(message, i, i + 5)) = <<"-", "-", "j", "s", "o", "n">>
       \/ i + 13 <= Len(message) /\ ToLowerCase(SubSeq(message, i, i + 13)) = <<"n", "o", " ", "s", "u", "c", "h", " ", "o", "p", "t", "i", "o", "n">>
FirstFailed == cliExits # <<>> /\ cliExits[1].kind # "ok"
FirstFailedOnFlag == FirstFailed /\ MentionsFlag(CommandError(cliExits[1]))
FirstFailedOtherwise == FirstFailed /\ ~MentionsFlag(CommandError(cliExits[1]))

\* C18: the first child process of fetchRecords carries --json.  When it
\* fails with an error text that mentions the flag or 'no such option', the
\* listing is spawned again, once, without the flag, and the records returned
\* are the lines of that output.  When it fails with any other error (a
\* missing executable included) fetchRecords throws that error and spawns
\* nothing more.
C18_RetryOnlyOnFlagError ==
    /\ [](cliLog # <<>> => cliLog[1] = Append(fetchArgs, JsonFlag))
    /\ [](Len(cliLog) <= 2)
    /\ (FirstFailedOnFlag ~> (Len(cliLog) = 2 /\ cliLog[2] = fetchArgs))
    /\ [](FirstFailedOnFlag /\ fetchPc = "returned"
            => /\ fetchOut.format = "text"
               /\ fetchOut.records = parseTextRecords(cliExits[2].text))
    /\ [](FirstFailedOtherwise => Len(cliLog) = 1 /\ fetchPc \in {"awaitJson", "thrown"})
    /\ (FirstFailedOtherwise
          ~> (fetchPc = "thrown" /\ fetchOut.error = CommandError(cliExits[1])))

\* the flag is rejected and the text listing gives two records
C18_Witness ==
    /\ fetchPc = "returned"
    /\ FirstFailedOnFlag
    /\ Len(cliLog) = 2
    /\ fetchOut.format = "text"
    /\ Len(fetchOut.records) = 2

(***************************************************************************)
(* Missing identity                                                        *)
(***************************************************************************)
\* the task and flow items of the displayed list, headers opened
DisplayedItems ==
    IF \E i \in 1..Len(treeItems) : IsHeader(treeItems[i])
    THEN Flatten(treeItems) ELSE treeItems

\* C19 (as stated): no item of a task or flow listing is built from a record
\* without a name under its label keys.
C19_AsStated ==
    treeDone =>
        \A i \in 1..Len(DisplayedItems) :
           pickFirstString(DisplayedItems[i].data, LabelKeys(section)) # undefined

(***************************************************************************)
(* Per-folder failure isolation                                            *)
(***************************************************************************)
FolderThrows(i) == projectFolders[i].load.kind = "throws"

\* C17 (as stated): with two or more project folders of which one fails to
\* load, getChildren still returns a folder entry with the entities of every
\* folder that loaded, and exactly one error entry for each folder that failed.
C17_AsStated ==
    rootDone /\ Len(projectFolders) >= 2 /\ (\E i \in 1..Len(projectFolders) : FolderThrows(i))
    => /\ \A i \in 1..Len(projectFolders) :
             ~FolderThrows(i) =>
                \E r \in 1..Len(rootItems) :
                   /\ rootItems[r].label = projectFolders[i].name
                   /\ rootItems[r].children = projectFolders[i].load.items
       /\ Cardinality({r \in 1..Len(rootItems) : rootItems[r].itemKind = <<"e", "r", "r", "o", "r">>})
             = Cardinality({i \in 1..Len(projectFolders) : FolderThrows(i)})

(***************************************************************************)
(* Failures of the CLI                                                     *)
(***************************************************************************)
\* the outcomes of the child processes getServiceTypeGroups spawned
ServiceExits == IF Len(svcOut.calls) = 2 THEN <<svcPlain, svcMeta>> ELSE <<svcPlain>>

\* C20 (as stated): when a child process spawned during the service listing
\* fails for a reason other than the unsupported JSON flag, the listing throws
\* that failure to its caller.
C20_AsStated ==
    svcDone =>
        \A k \in 1..Len(ServiceExits) :
           ServiceExits[k].kind # "ok" /\ ~MentionsFlag(CommandError(ServiceExits[k]))
              => svcOut.thrown /\ svcOut.error = CommandError(ServiceExits[k])

(***************************************************************************)
(* Parse failures                                                          *)
(***************************************************************************)
\* C21 (as stated): when the CLI call of getOrgInfo succeeds, getOrgInfo does
\* not throw, whatever its output: unparseable output degrades to an empty
\* result.
C21_AsStated ==
    infoDone /\ infoExit.kind = "ok" => ~infoOut.thrown

(***************************************************************************)
(* Default-org status updates                                              *)
(***************************************************************************)
\* update i writes its copy of the cache back in this step
WritesBack(i) ==
    /\ i \in 1..Len(updates)
    /\ updates[i].pc \in {"notification", "followUp"}
    /\ updates'[i].pc = "done"
    /\ storeWrites' = storeWrites + 1

\* C22 (as stated): between the moment an expiry check reads the notification
\* cache and the moment it writes its copy back, nothing else has written the
\* cache, in every interleaving of the status updates.
C22_AsStated ==
    [][\A i \in 1..MaxUpdates : WritesBack(i) => updates[i].readAt = storeWrites]_vars

\* the updates ran one after another, and each found the same scratch org with
\* the same expired flag and the same day count, which is still the default
Serial == \A i \in 1..Len(updates) : ~updates[i].overlapped
FoundThroughout(org) ==
    /\ defaultOrg = org
    /\ \A i \in 1..Len(updates) : updates[i].pc # "findDefaultOrg" => updates[i].info = org
IsScratchOrg(org) == org # NoDefault /\ getBoolean(org.data, scratchKeys) = jsTrue
NearExpiry(org) ==
    \/ getBoolean(org.data, <<"expired">>) = jsTrue
    \/ LET dayCount == parseScratchDayCount(pickFirstString(org.data, <<"days">>))
       IN dayCount.remaining # undefNum /\ dayCount.remaining <= 2

\* C27 (as stated): in a series of status updates that run one after another
\* while the default org stays the same scratch org with the same expired
\* flag and day count, at most one expiry notification is shown, and only
\* for an org that is expired or has at most 2 days left.
C27_AsStated ==
    \A org \in DefaultOrgPool :
        Serial /\ IsScratchOrg(org) /\ FoundThroughout(org)
            => Len(shown) <= 1 /\ (shown # <<>> => NearExpiry(org))

\* C28 (as stated): once every status update has finished, the status bar
\* shows what the update that started last wrote.
C28_AsStated ==
    updates # <<>> /\ (\A i \in 1..Len(updates) : ~InFlight(updates[i]))
        => statusText = updates[Len(updates)].wrote

(***************************************************************************)
(* The listing fallback                                                    *)
(***************************************************************************)
FirstSucceeded == cliExits # <<>> /\ cliExits[1].kind = "ok"

\* C26 (as stated): fetchRecords spawns the listing without --json only after
\* the --json call failed with an error that names the flag; when the --json
\* call succeeds, even with output that holds no record, the CLI is spawned
\* exactly once.
C26_AsStated ==
    /\ Len(cliLog) >= 2 => FirstFailedOnFlag
    /\ FirstSucceeded => Len(cliLog) = 1

(***************************************************************************)
(* Live org records and their definitions                                  *)
(***************************************************************************)
\* the live records that carry an alias, by position, and their keys
AliasedLive == {i \in 1..Len(LiveOrgRecords) : LiveOrgAlias(LiveOrgRecords[i]) # undefined}
LiveKeyAt(i) == ToLowerCase(LiveOrgAlias(LiveOrgRecords[i]))
EntriesOf(key) == {j \in 1..Len(OrgLatest) : EntryKey(OrgLatest[j]) = key}

\* the record says it is a scratch org, under any of the keys createOrgEntry reads
ClaimsScratch(record) ==
    /\ record.kind = "object"
    /\ getBoolean(record, <<"scratch", "scratch_org", "is_scratch", "isScratch">>) = jsTrue

\* C23 (as stated): a live record that claims to be a scratch org, under any
\* of the scratch keys and as a boolean or a truthy string, and whose alias
\* has no definition, gives an entry marked definitionMissing.
C23_AsStated ==
    OrgRan =>
        \A i \in AliasedLive :
            (/\ ClaimsScratch(LiveOrgRecords[i])
             /\ LiveKeyAt(i) \notin DefinitionKeys
             /\ \A k \in AliasedLive : LiveKeyAt(k) = LiveKeyAt(i) => k = i)
                => \E j \in EntriesOf(LiveKeyAt(i)) : OrgLatest[j].definitionMissing

AsSet(seq) == {seq[i] : i \in 1..Len(seq)}

\* what the merge of a live record with its definition gives
MergedWith(record, definition, entry) ==
    /\ ~entry.definitionOnly
    /\ entry.data.config =
          IF Truthy(record.config) \/ ~Truthy(definition.configPath)
          THEN record.config ELSE definition.configPath
    /\ entry.data.is_scratch =
          IF definition.isScratch # undefined THEN definition.isScratch ELSE record.is_scratch
    /\ AsSet(entry.data.definitionSources) =
          AsSet(toStringArray(record.definitionSources)) \cup AsSet(definition.sources)

\* C24 (as stated): a live record whose alias has a definition takes the
\* definition's config path only when it has none of its own, takes the
\* definition's scratch flag when the definition states one, has the union
\* of both source lists, and its alias has no definition-only entry.
C24_AsStated ==
    OrgRan =>
        \A i \in AliasedLive :
            LiveKeyAt(i) \in DefinitionKeys =>
                /\ EntriesOf(LiveKeyAt(i)) # {}
                /\ \A j \in EntriesOf(LiveKeyAt(i)) :
                      MergedWith(LiveOrgRecords[i],
                                 MapGet(getOrgDefinitions(orgsDirectory, scratchSection),
                                        LiveKeyAt(i)),
                                 OrgLatest[j])

\* C25 (as stated): no entry is marked definitionMissing when a definition
\* file or config entry exists for its alias, whatever the live records are,
\* repeated aliases included.
C25_AsStated ==
    \A j \in 1..Len(OrgLatest) :
        OrgLatest[j].definitionMissing => EntryKey(OrgLatest[j]) \notin DefinitionKeys

(***************************************************************************)
(* A name defined in both config documents                                 *)
(***************************************************************************)
ProjectStubs ==
    LET all == convertConfigSectionToRecords(projectSection, "project")
    IN {all[i] : i \in {j \in 1..Len(all) : Trim(all[j].name) # <<>>}}
GlobalStubs ==
    LET all == convertConfigSectionToRecords(globalSection, "global")
    IN {all[i] : i \in {j \in 1..Len(all) : Trim(all[j].name) # <<>>}}
DefinedInBoth == {StubKey(p) : p \in ProjectStubs} \cap {StubKey(g) : g \in GlobalStubs}

\* C29 (as stated): a name (letter case apart) defined in the project document
\* and in the user-level document gives exactly one stub, the project one:
\* its origin tag is 'project' and its description and group are those of the
\* project document.  (Looked at for names no live record carries, where the
\* stub is returned as it is.)
C29_AsStated ==
    \A r \in LatestRun : \A k \in DefinedInBoth \ LiveKeys :
        LET hits == {i \in 1..Len(taskRuns[r]) : NameKey(taskRuns[r][i]) = k}
        IN /\ Cardinality(hits) = 1
           /\ \A i \in hits :
                \E p \in ProjectStubs :
                    /\ StubKey(p) = k
                    /\ taskRuns[r][i].configSource = p.configSource
                    /\ taskRuns[r][i].description = p.description
                    /\ taskRuns[r][i].group = p.group

(***************************************************************************)
(* Service connect                                                         *)
(***************************************************************************)
Sent == terminalText # <<>>
Dismissed(i) == answers[i].input = undefined
\* required, with neither a default value nor a default factory
MustBeGiven(attribute) ==
    /\ attribute.required
    /\ attribute.defaultValue = undefined
    /\ attribute.defaultFactory = undefined
BlankAnswerFor(i, attribute) ==
    /\ answers[i].kind = "attribute"
    /\ answers[i].name = attribute.name
    /\ ~Dismissed(i)
    /\ Trim(answers[i].input) = <<>>
\* the command holds `--<name> <value>` with a non-blank value the user typed
Carries(attribute) ==
    \E p \in 1..(Len(commandParts) - 1), i \in 1..Len(answers) :
        /\ commandParts[p] = <<"-", "-">> \o attribute.name
        /\ answers[i].kind = "attribute"
        /\ answers[i].name = attribute.name
        /\ ~Dismissed(i)
        /\ Trim(answers[i].input) # <<>>
        /\ commandParts[p + 1] = quoteArg(Trim(answers[i].input))

====
